---- MODULE Spec2Model ----
(***************************************************************************)
(* The sun_rain trading barometer: the regime classifier, the recovery     *)
(* detector and the single-position simulator, as the five tools of the    *)
(* repository implement them (optimizer, batch_tester, test_suite,         *)
(* long_term_backtester, stock_analysis).                                  *)
(*                                                                         *)
(* Numbers.  Prices are integers.  A number is an exact fraction           *)
(* <<numerator, denominator>> in lowest terms with a positive denominator  *)
(* (Num(v) is the integer v, <<-1, 10>> the code's -0.1), or a double      *)
(* <<sign, exponent, mantissa>> (see Doubles below).  A value that pandas  *)
(* holds as NaN is the empty tuple NaN.  The rows the classifiers are      *)
(* called with one at a time hold fractions, each standing for the double  *)
(* nearest to it.  Every copy of calculate_indicators and every simulator  *)
(* (profits, capital, daily returns and their running product) computes in *)
(* doubles, operation by operation, as Python and pandas compute them.     *)
(***************************************************************************)
EXTENDS Integers, Sequences, FiniteSets, TLC

(***************************************************************************)
(* Bounds of the model.                                                    *)
(***************************************************************************)
MaxBars == 4
MaxPrice == 3

(***************************************************************************)
(* Optional numbers.                                                       *)
(***************************************************************************)
NaN == <<>>
Num(v) == <<v, 1>>
isna(x) == x = NaN

(***************************************************************************)
(* Exact fractions.                                                        *)
(***************************************************************************)
Abs(x) == IF x < 0 THEN -x ELSE x

RECURSIVE GCD(_, _)
GCD(a, b) == IF b = 0 THEN a ELSE GCD(b, a % b)

Rat(n, d) ==
    LET g == GCD(Abs(n), Abs(d))
        s == IF d < 0 THEN -1 ELSE 1
    IN  <<(s * n) \div g, (s * d) \div g>>
RAdd(a, b) ==
    LET g == GCD(a[2], b[2])
    IN  Rat(a[1] * (b[2] \div g) + b[1] * (a[2] \div g), (a[2] \div g) * b[2])
RSub(a, b) == RAdd(a, <<-b[1], b[2]>>)
RMul(a, b) == Rat(a[1] * b[1], a[2] * b[2])
RDiv(a, b) == Rat(a[1] * b[2], a[2] * b[1])
RGt(a, b) == a[1] * b[2] > b[1] * a[2]
Zero == <<0, 1>>
One == <<1, 1>>

(***************************************************************************)
(* Doubles.  The code's numbers are IEEE 754 binary64 values.  A finite    *)
(* double is <<sign, exponent, mantissa>>, standing for                    *)
(* (-1)^sign * mantissa * 2^exponent: the mantissa is a natural number of  *)
(* exactly 53 bits, written as its digits in base 2^15, the least first;   *)
(* zero is <<0, 0, <<>>>>.  Every operation is the exact result rounded to *)
(* the nearest double, ties to even.  Infinities, NaN and the sign of zero *)
(* are dealt with where the operation is applied; overflow and subnormal   *)
(* results are out of the reach of the frames of this module.              *)
(***************************************************************************)
\* natural numbers of any size, as digits in base 2^15
Digit(x, j) == IF 1 <= j /\ j <= Len(x) THEN x[j] ELSE 0
BTrim(x) ==
    LET used == {j \in 1..Len(x) : x[j] # 0}
    IN  IF used = {} THEN <<>>
        ELSE SubSeq(x, 1, CHOOSE j \in used : \A l \in used : l <= j)
BNat(v) == BTrim(<<v % (2 ^ 15), (v \div (2 ^ 15)) % (2 ^ 15), v \div (2 ^ 30)>>)
BInt(x) == Digit(x, 1) + (2 ^ 15) * Digit(x, 2) + (2 ^ 30) * Digit(x, 3)

\* x + y: a digit takes a carry when a digit below it overflows and every
\* digit between the two is full
BAdd(x, y) ==
    LET t == [j \in 1..(IF Len(x) < Len(y) THEN Len(y) ELSE Len(x)) |->
                 Digit(x, j) + Digit(y, j)]
    IN  BTrim([j \in 1..(Len(t) + 1) |->
            (Digit(t, j)
             + (IF \E k \in 1..(j - 1) :
                       t[k] >= 2 ^ 15 /\ \A l \in (k + 1)..(j - 1) : t[l] = 2 ^ 15 - 1
                THEN 1 ELSE 0)) % (2 ^ 15)])

\* x - y for x >= y, with borrows in the place of carries
BSub(x, y) ==
    LET t == [j \in 1..Len(x) |-> x[j] - Digit(y, j)]
    IN  BTrim([j \in 1..Len(x) |->
            (t[j]
             - (IF \E k \in 1..(j - 1) : t[k] < 0 /\ \A l \in (k + 1)..(j - 1) : t[l] = 0
                THEN 1 ELSE 0)) % (2 ^ 15)])

\* -1, 0 or 1 as x is below, equal to or above y
BCmp(x, y) ==
    LET differ == {j \in 1..(Len(x) + Len(y)) : Digit(x, j) # Digit(y, j)}
        top == CHOOSE j \in differ : \A l \in differ : l <= j
    IN  IF differ = {} THEN 0
        ELSE IF Digit(x, top) < Digit(y, top) THEN -1 ELSE 1

\* x * 2^k and floor(x / 2^k)
BShl(x, k) ==
    BTrim([j \in 1..(Len(x) + (k \div 15) + 1) |->
        IF j <= k \div 15 THEN 0
        ELSE (Digit(x, j - (k \div 15)) % (2 ^ (15 - (k % 15)))) * (2 ^ (k % 15))
             + Digit(x, j - (k \div 15) - 1) \div (2 ^ (15 - (k % 15)))])
BShr(x, k) ==
    IF Len(x) <= k \div 15 THEN <<>>
    ELSE BTrim([j \in 1..(Len(x) - (k \div 15)) |->
             (Digit(x, j + (k \div 15) + 1) % (2 ^ (k % 15))) * (2 ^ (15 - (k % 15)))
             + Digit(x, j + (k \div 15)) \div (2 ^ (k % 15))])

\* x * y for x and y of four digits at most: the digit products that fall in
\* column k, their low halves and the high halves of the column below
BMulColumn(x, y, k) ==
    LET low(i) == (Digit(x, i) * Digit(y, k + 1 - i)) % (2 ^ 15)
        high(i) == (Digit(x, i) * Digit(y, k - i)) \div (2 ^ 15)
    IN  low(1) + low(2) + low(3) + low(4) + high(1) + high(2) + high(3) + high(4)
BMul(x, y) ==
    BAdd(BTrim([k \in 1..8 |-> BMulColumn(x, y, k) % (2 ^ 15)]),
         <<0>> \o [k \in 1..8 |-> BMulColumn(x, y, k) \div (2 ^ 15)])

\* the number of binary digits of x
BBits(x) ==
    IF x = <<>> THEN 0
    ELSE 15 * (Len(x) - 1)
         + (CHOOSE b \in 1..15 : 2 ^ (b - 1) <= x[Len(x)] /\ x[Len(x)] < 2 ^ b)

\* (-1)^s * m * 2^e for m of 53 bits at most, as a double
Normal(s, m, e) ==
    IF m = <<>> THEN <<0, 0, <<>>>>
    ELSE <<s, e + BBits(m) - 53, BShl(m, 53 - BBits(m))>>

\* r holds 54 bits, the last of them to be dropped, or 55 after a carry
Carry(s, e, r) ==
    IF BBits(r) = 55 THEN <<s, e + 1, BShr(r, 2)>> ELSE <<s, e, BShr(r, 1)>>

\* t is m without its sh - 1 lowest bits: 53 bits and the bit that decides.
\* Up when that bit is set and anything lies below it or the 53 bits are odd
Nearest(s, m, e, inexact, sh, t) ==
    Carry(s, e + sh,
          IF t[1] % 2 = 1 /\ (inexact \/ (t[1] \div 2) % 2 = 1 \/ BShl(t, sh - 1) # m)
          THEN BAdd(t, <<1>>) ELSE t)

\* the double nearest to (-1)^s * m * 2^e, ties to even; `inexact` says
\* that the number rounded is a little above m * 2^e
Round(s, m, e, inexact) ==
    IF BBits(m) <= 53 THEN Normal(s, m, e)
    ELSE Nearest(s, m, e, inexact, BBits(m) - 53, BShr(m, BBits(m) - 54))

Double(v) == Normal(IF v < 0 THEN 1 ELSE 0, BNat(IF v < 0 THEN -v ELSE v), 0)

FNeg(a) == IF a[3] = <<>> THEN a ELSE <<1 - a[1], a[2], a[3]>>

\* -1, 0 or 1 as a is below, equal to or above b
FCmp(a, b) ==
    LET mag == IF a[2] < b[2] THEN -1 ELSE IF a[2] > b[2] THEN 1 ELSE BCmp(a[3], b[3])
    IN  IF a[3] = <<>> /\ b[3] = <<>> THEN 0
        ELSE IF a[3] = <<>> THEN (IF b[1] = 1 THEN 1 ELSE -1)
        ELSE IF b[3] = <<>> THEN (IF a[1] = 1 THEN -1 ELSE 1)
        ELSE IF a[1] # b[1] THEN (IF a[1] = 1 THEN -1 ELSE 1)
        ELSE IF a[1] = 1 THEN -mag ELSE mag

\* (-1)^sa * x * 2^e + (-1)^sb * y * 2^e
FAddAligned(sa, x, sb, y, e) ==
    Round(IF sa = sb \/ BCmp(x, y) >= 0 THEN sa ELSE sb,
          IF sa = sb THEN BAdd(x, y)
          ELSE IF BCmp(x, y) >= 0 THEN BSub(x, y) ELSE BSub(y, x),
          e, FALSE)

FAdd(a, b) ==
    IF a[3] = <<>> THEN b
    ELSE IF b[3] = <<>> THEN a
    ELSE IF a[2] < b[2] THEN FAddAligned(a[1], a[3], b[1], BShl(b[3], b[2] - a[2]), a[2])
    ELSE FAddAligned(a[1], BShl(a[3], a[2] - b[2]), b[1], b[3], b[2])

FSub(a, b) == FAdd(a, FNeg(b))

FMul(a, b) ==
    IF a[3] = <<>> \/ b[3] = <<>> THEN <<0, 0, <<>>>>
    ELSE Round((a[1] + b[1]) % 2, BMul(a[3], b[3]), a[2] + b[2], FALSE)

\* x * c for c in 0..2^15
BMulDigit(x, c) ==
    BAdd(BTrim([j \in 1..Len(x) |-> (x[j] * c) % (2 ^ 15)]),
         <<0>> \o [j \in 1..Len(x) |-> (x[j] * c) \div (2 ^ 15)])

\* the next digit of r / d in base 2^15, for r < d and d of 53 bits, and what
\* is left of rb = r * 2^15: the digit is within one of est, the quotient of
\* the leading bits
DivFits(rb, d, c) == c < 2 ^ 15 /\ BCmp(BMulDigit(d, c), rb) <= 0
DivLeft(rb, d, c) == <<c, BSub(rb, BMulDigit(d, c))>>
DivTake(rb, d, est) ==
    DivLeft(rb, d, IF DivFits(rb, d, est + 1) THEN est + 1
                   ELSE IF est = 0 \/ DivFits(rb, d, est) THEN est
                   ELSE est - 1)
DivDigit(r, d) == DivTake(BShl(r, 15), d, BInt(BShr(r, 22)) \div BInt(BShr(d, 37)))

\* k more digits of the quotient after step = <<digit, what is left>>; q
\* holds the digits before it, the least first
RECURSIVE DivDigits(_, _, _, _)
DivDigits(q, step, d, k) ==
    IF k = 0 \/ step[2] = <<>>
    THEN <<[j \in 1..k |-> 0] \o <<step[1]>> \o q, step[2]>>
    ELSE DivDigits(<<step[1]>> \o q, DivDigit(step[2], d), d, k - 1)

FDivRound(s, qr, e) == Round(s, BTrim(qr[1]), e, qr[2] # <<>>)

\* a / b for b other than zero: the whole part of the quotient of the
\* mantissas and four digits after it
FDiv(a, b) ==
    IF a[3] = <<>> THEN a
    ELSE FDivRound((a[1] + b[1]) % 2,
                   DivDigits(<<>>,
                             IF BCmp(a[3], b[3]) >= 0 THEN <<1, BSub(a[3], b[3])>>
                             ELSE <<0, a[3]>>,
                             b[3], 4),
                   a[2] - b[2] - 60)

(***************************************************************************)
(* Numbers of either kind.  An operation on two fractions is exact; an     *)
(* operation with a double is the double operation, a fraction taking part *)
(* as the double nearest to it (the way Python reads the literal -0.1).    *)
(***************************************************************************)
IsDouble(a) == Len(a) = 3
ToDouble(a) ==
    IF IsDouble(a) THEN a
    ELSE IF a[2] = 1 THEN Double(a[1])
    ELSE FDiv(Double(a[1]), Double(a[2]))

\* -1, 0 or 1 as a is below, equal to or above b
Cmp(a, b) ==
    IF IsDouble(a) \/ IsDouble(b) THEN FCmp(ToDouble(a), ToDouble(b))
    ELSE IF a[1] * b[2] < b[1] * a[2] THEN -1
    ELSE IF a[1] * b[2] > b[1] * a[2] THEN 1
    ELSE 0

\* Python's comparisons: every comparison with NaN is False
Gt(a, b) == ~isna(a) /\ ~isna(b) /\ Cmp(a, b) > 0
Lt(a, b) == ~isna(a) /\ ~isna(b) /\ Cmp(a, b) < 0
Le(a, b) == ~isna(a) /\ ~isna(b) /\ Cmp(a, b) <= 0

Add(a, b) == IF IsDouble(a) \/ IsDouble(b) THEN FAdd(ToDouble(a), ToDouble(b)) ELSE RAdd(a, b)
Sub(a, b) == IF IsDouble(a) \/ IsDouble(b) THEN FSub(ToDouble(a), ToDouble(b)) ELSE RSub(a, b)
Mul(a, b) == IF IsDouble(a) \/ IsDouble(b) THEN FMul(ToDouble(a), ToDouble(b)) ELSE RMul(a, b)
Div(a, b) == IF IsDouble(a) \/ IsDouble(b) THEN FDiv(ToDouble(a), ToDouble(b)) ELSE RDiv(a, b)
IsZero(a) == Cmp(a, Zero) = 0

(***************************************************************************)
(* Labels.  The code's strings, by copy:                                   *)
(*   SUNNY "晴天", CLOUDY_BRIGHT "多雲", OVERCAST "陰天", RAINY "雨天",     *)
(*   TYPHOON "颱風天", INSUFFICIENT_DATA "資料不足" / "數據不足",           *)
(*   TRIGGER "撥雲見日", NONE "無雨", HEAVY_RAIN "大雨滂沱",                *)
(*   STEADY_RAIN "陰雨連綿", EASING "雨聲漸細".                             *)
(***************************************************************************)
RegimeLabels ==
    {"SUNNY", "CLOUDY_BRIGHT", "OVERCAST", "RAINY", "TYPHOON", "INSUFFICIENT_DATA"}
RecoveryLabels ==
    {"TRIGGER", "NONE", "INSUFFICIENT_DATA", "HEAVY_RAIN", "STEADY_RAIN", "EASING"}

(***************************************************************************)
(* get_barometer_status.  scan_module, optimizer and test_suite hold the   *)
(* same function; batch_tester and stock_analysis test only ma_long for    *)
(* NaN.  price > ma_short > ma_long is Python's chained comparison.        *)
(***************************************************************************)
\* variant: the TYPHOON rule is tried before the RAINY rule
barometer_rules_typhoon_first(row, config) ==
    LET price == Num(row.Close)
        ma_short == row.ma_short
        ma_long == row.ma_long
        rsi == row.RSI
    IN  IF Gt(price, ma_short) /\ Gt(ma_short, ma_long)
           /\ Gt(rsi, Num(config.rsi_bull_threshold))
        THEN "SUNNY"
        ELSE IF Gt(price, ma_short) /\ Gt(price, ma_long)
        THEN "CLOUDY_BRIGHT"
        ELSE IF (Gt(ma_long, price) /\ Gt(price, ma_short))
                \/ (Gt(ma_short, price) /\ Gt(price, ma_long))
        THEN "OVERCAST"
        ELSE IF Gt(ma_short, price) /\ Gt(ma_long, price)
                /\ Lt(rsi, Num(config.rsi_oversold))
        THEN "TYPHOON"
        ELSE IF Gt(ma_short, price) /\ Gt(ma_long, price)
                /\ Lt(rsi, Num(config.rsi_bear_threshold))
        THEN "RAINY"
        ELSE "OVERCAST"

barometer_rules(row, config) ==
    LET price == Num(row.Close)
        ma_short == row.ma_short
        ma_long == row.ma_long
        rsi == row.RSI
    IN  IF Gt(price, ma_short) /\ Gt(ma_short, ma_long)
           /\ Gt(rsi, Num(config.rsi_bull_threshold))
        THEN "SUNNY"
        ELSE IF Gt(price, ma_short) /\ Gt(price, ma_long)
        THEN "CLOUDY_BRIGHT"
        ELSE IF (Gt(ma_long, price) /\ Gt(price, ma_short))
                \/ (Gt(ma_short, price) /\ Gt(price, ma_long))
        THEN "OVERCAST"
        ELSE IF Gt(ma_short, price) /\ Gt(ma_long, price)
                /\ Lt(rsi, Num(config.rsi_bear_threshold))
        THEN "RAINY"
        ELSE IF Gt(ma_short, price) /\ Gt(ma_long, price)
                /\ Lt(rsi, Num(config.rsi_oversold))
        THEN "TYPHOON"
        ELSE "OVERCAST"

get_barometer_status(row, config) ==
    IF isna(row.ma_long) \/ isna(row.ma_short)
    THEN "INSUFFICIENT_DATA"
    ELSE barometer_rules(row, config)

\* variant: the short average alone is tested
get_barometer_status_batch_short_only(row, config) ==
    IF isna(row.ma_short)
    THEN "INSUFFICIENT_DATA"
    ELSE barometer_rules(row, config)

\* batch_tester.py and stock_analysis.py: ma_long alone is tested; a row
\* with ma_long defined has ma_short defined (nested_windows)
get_barometer_status_batch(row, config) ==
    IF isna(row.ma_long)
    THEN "INSUFFICIENT_DATA"
    ELSE barometer_rules(row, config)

\* judge_stock.py: both averages are tested for NaN; RAINY is tried first
\* and RSI is not read
get_barometer_status_judge(row, config) ==
    LET Close == Num(row.Close)
    IN  IF isna(row.ma_long) \/ isna(row.ma_short) THEN "INSUFFICIENT_DATA"
        ELSE IF Lt(Close, row.ma_short) /\ Lt(Close, row.ma_long) THEN "RAINY"
        ELSE IF Gt(Close, row.ma_short) /\ Gt(row.ma_short, row.ma_long) THEN "SUNNY"
        ELSE IF Gt(Close, row.ma_short) /\ Gt(Close, row.ma_long) THEN "CLOUDY_BRIGHT"
        ELSE "OVERCAST"

(***************************************************************************)
(* get_recovery_status.  prev_row is <<>> for Python's None and <<r>> for  *)
(* a row r.                                                                *)
(***************************************************************************)
prev_drawdown_of(prev_row) ==
    IF Len(prev_row) > 0 /\ ~isna(prev_row[1].Drawdown)
    THEN prev_row[1].Drawdown
    ELSE Num(0)

\* variant: the trend strength (ADX) is not tested
get_recovery_status_no_adx(row, prev_row, config) ==
    IF isna(row.MACD_hist) \/ isna(row.Drawdown) \/ isna(row.ADX)
       \/ isna(row.DIplus) \/ isna(row.DIminus)
    THEN "INSUFFICIENT_DATA"
    ELSE IF Le(row.Drawdown, config.drawdown_no_rain)
            /\ Gt(row.Drawdown, prev_drawdown_of(prev_row))
            /\ Gt(row.MACD_hist, Num(0))
            /\ Gt(row.DIplus, row.DIminus)
    THEN "TRIGGER"
    ELSE "NONE"

\* variant: only MACD_hist and the drawdown are tested for NaN
get_recovery_status_two_fields(row, prev_row, config) ==
    IF isna(row.MACD_hist) \/ isna(row.Drawdown)
    THEN "INSUFFICIENT_DATA"
    ELSE IF Le(row.Drawdown, config.drawdown_no_rain)
            /\ Gt(row.Drawdown, prev_drawdown_of(prev_row))
            /\ Gt(row.MACD_hist, Num(0))
            /\ Gt(row.ADX, Num(config.adx_threshold))
            /\ Gt(row.DIplus, row.DIminus)
    THEN "TRIGGER"
    ELSE "NONE"

\* optimizer.py and test_suite.py
get_recovery_status(row, prev_row, config) ==
    IF isna(row.MACD_hist) \/ isna(row.Drawdown) \/ isna(row.ADX)
       \/ isna(row.DIplus) \/ isna(row.DIminus)
    THEN "INSUFFICIENT_DATA"
    ELSE IF Le(row.Drawdown, config.drawdown_no_rain)
            /\ Gt(row.Drawdown, prev_drawdown_of(prev_row))
            /\ Gt(row.MACD_hist, Num(0))
            /\ Gt(row.ADX, Num(config.adx_threshold))
            /\ Gt(row.DIplus, row.DIminus)
    THEN "TRIGGER"
    ELSE "NONE"

\* variant: the drawdown need not have improved on the bar before
get_recovery_status_scan_not_improving(row, prev_row, config) ==
    IF isna(row.MACD_hist) \/ isna(row.Drawdown) \/ isna(row.ADX)
    THEN "INSUFFICIENT_DATA"
    ELSE IF Le(row.Drawdown, config.drawdown_no_rain)
            /\ Gt(row.MACD_hist, Num(0))
            /\ Gt(row.ADX, Num(config.adx_threshold))
            /\ Gt(row.DIplus, row.DIminus)
    THEN "TRIGGER"
    ELSE "NONE"

\* scan_module.py (imported by long_term_backtester.py): DI+ and DI- are not
\* tested for NaN; calculate_indicators has filled them with 0
get_recovery_status_scan(row, prev_row, config) ==
    IF isna(row.MACD_hist) \/ isna(row.Drawdown) \/ isna(row.ADX)
    THEN "INSUFFICIENT_DATA"
    ELSE IF Le(row.Drawdown, config.drawdown_no_rain)
            /\ Gt(row.Drawdown, prev_drawdown_of(prev_row))
            /\ Gt(row.MACD_hist, Num(0))
            /\ Gt(row.ADX, Num(config.adx_threshold))
            /\ Gt(row.DIplus, row.DIminus)
    THEN "TRIGGER"
    ELSE "NONE"

\* batch_tester.py (the function as written; the script itself stops at its
\* line 16, before the definition is reached: see BatchStart)
get_recovery_status_batch(row, prev_row, config) ==
    IF isna(row.MACD_hist) \/ isna(row.Drawdown)
    THEN "INSUFFICIENT_DATA"
    ELSE IF Le(row.Drawdown, config.drawdown_no_rain)
            /\ Gt(row.Drawdown, prev_drawdown_of(prev_row))
            /\ Gt(row.MACD_hist, Num(0))
    THEN "TRIGGER"
    ELSE "NONE"

\* stock_analysis.py: prev_row is never None there (a dict holding the
\* shifted Drawdown, NaN on the first row), and nothing is tested for NaN.
get_recovery_status_timing(row, prev_row, config) ==
    LET drawdown == row.Drawdown
        macd_hist == row.MACD_hist
        prev_drawdown == IF Len(prev_row) > 0 THEN prev_row[1].Drawdown ELSE Num(0)
        no_rain == config.drawdown_no_rain
        heavy == config.drawdown_heavy_rain
    IN  IF Gt(drawdown, no_rain) THEN "NONE"
        ELSE IF Lt(drawdown, heavy) /\ Lt(drawdown, prev_drawdown) THEN "HEAVY_RAIN"
        ELSE IF Le(drawdown, no_rain) /\ Lt(drawdown, prev_drawdown) THEN "STEADY_RAIN"
        ELSE IF Le(drawdown, no_rain) /\ Gt(drawdown, prev_drawdown)
                /\ Lt(macd_hist, Num(0))
        THEN "EASING"
        ELSE IF Le(drawdown, no_rain) /\ Gt(drawdown, prev_drawdown)
                /\ Gt(macd_hist, Num(0))
        THEN "TRIGGER"
        ELSE "NONE"

(***************************************************************************)
(* The tools that hold a copy of the simulator, and the strategy types     *)
(* each accepts (long_term_backtester and stock_analysis have none: their  *)
(* entry and exit conditions are the conservative ones).                   *)
(***************************************************************************)
Tools == {"optimizer", "batch_tester", "test_suite", "long_term", "stock_analysis"}
SingleBacktestTools == {"optimizer", "batch_tester", "test_suite"}
StrategyTypes(tool) ==
    IF tool \in SingleBacktestTools
    THEN {"conservative", "aggressive"}
    ELSE {"conservative"}

(***************************************************************************)
(* Configs.  ConfSmall is the test suite's config_for_test: the thresholds *)
(* of the fallback TEST_CONFIG (test_suite.py run in its own directory     *)
(* does not find Model_conf.py) with the windows cut down to a short       *)
(* frame.  ConfInverted differs in rsi_oversold > rsi_bear_threshold, the  *)
(* only kind of config under which the TYPHOON rule can fire.  ConfTiming  *)
(* is stock_analysis's CONFIGS["default"]: its thresholds, and the windows *)
(* of ConfSmall.                                                           *)
(***************************************************************************)
ConfSmall ==
    [ma_short |-> 1, ma_long |-> 2, rsi_window |-> 1,
     rsi_oversold |-> 30, rsi_bull_threshold |-> 50, rsi_bear_threshold |-> 40,
     macd_fast |-> 1, macd_slow |-> 2, macd_signal |-> 1,
     drawdown_window |-> 2, drawdown_no_rain |-> <<-1, 10>>,
     adx_period |-> 1, adx_threshold |-> 20]
ConfInverted ==
    [ConfSmall EXCEPT !.rsi_oversold = 45, !.rsi_bear_threshold = 30]
ConfTiming ==
    [ma_short |-> 1, ma_long |-> 2, rsi_window |-> 1,
     rsi_oversold |-> 30, rsi_bull_threshold |-> 55, rsi_bear_threshold |-> 45,
     macd_fast |-> 1, macd_slow |-> 2, macd_signal |-> 1,
     drawdown_window |-> 2, drawdown_no_rain |-> <<-1, 20>>,
     drawdown_heavy_rain |-> <<-1, 5>>]
ConfigsOf(tool) ==
    IF tool = "stock_analysis" THEN {ConfTiming} ELSE {ConfSmall, ConfInverted}

(***************************************************************************)
(* df['DX'] of one bar from its DI+ and DI-.  A division by zero gives inf *)
(* (NaN for 0/0) in pandas.                                                *)
(***************************************************************************)
NAbs(a) == IF IsDouble(a) THEN <<0, a[2], a[3]>> ELSE <<Abs(a[1]), a[2]>>
Inf == <<1, 0>>

\* np.abs(DIplus - DIminus) / total * 100
dx_from(di_plus, di_minus, total) ==
    IF IsZero(total) THEN NaN
    ELSE Mul(Div(NAbs(Sub(di_plus, di_minus)), total), Num(100))

\* np.abs(DIplus - DIminus) / (DIplus + DIminus).replace(0, np.nan) * 100
dx_of(di_plus, di_minus) == dx_from(di_plus, di_minus, Add(di_plus, di_minus))

\* np.abs(DIplus - DIminus) / (DIplus + DIminus) * 100: inf/inf and 0/0 are NaN
dx_of_unguarded(di_plus, di_minus) ==
    IF isna(di_plus) \/ isna(di_minus) \/ di_plus = Inf \/ di_minus = Inf THEN NaN
    ELSE dx_from(di_plus, di_minus, Add(di_plus, di_minus))

(***************************************************************************)
(* Indicator rows: what calculate_indicators hands to the classifiers, as  *)
(* grids of values on both sides of every threshold.                       *)
(*                                                                         *)
(* The two averages are rolling means of the same closes, and every config *)
(* has ma_short < ma_long: the window of ma_short is the end of the window *)
(* of ma_long, so a row with ma_long defined has ma_short defined.         *)
(*                                                                         *)
(* MACD_hist and Drawdown are defined wherever the close is.  DI+ and DI-  *)
(* are never NaN in the frames of scan_module (long_term_backtester) and   *)
(* test_suite, which fill them with 0; optimizer's are NaN together, where *)
(* the smoothed true range they are divided by is NaN or 0: on the first   *)
(* bar, and on every bar whose true range is 0 (with adx_period 1, as in   *)
(* the configs here, the smoothed true range is the true range of the      *)
(* bar).  In every copy both are 0 where neither directional movement is   *)
(* positive.  DX is computed from the two and is NaN where their sum is 0  *)
(* or NaN.  ADX, the running average of DX, is undefined until the first   *)
(* bar whose DX is defined and defined from there on: ewm carries it over  *)
(* the bars whose DX is NaN, so a defined ADX stands beside any DI+ and    *)
(* DI-.  The values stand for the rows of every adx_period: with a period *)
(* above 1 both DI+ and DI- can be positive on a bar and ADX takes values  *)
(* on both sides of adx_threshold.  batch_tester, stock_analysis and       *)
(* judge_stock compute none of the four.                                   *)
(***************************************************************************)
Prices == 1..MaxPrice
MaValues == {NaN} \cup {Num(v) : v \in Prices}
RsiValues == {NaN, Num(20), Num(42), Num(60)}
MacdHistValues == {Num(-1), Num(0), Num(1)}
DrawdownValues == {<<-3, 10>>, <<-1, 5>>, <<-1, 10>>, Num(0)}
AdxValues == {NaN, Num(10), Num(30)}
DiPlusValues == {Num(10), Num(30)}
DiMinusValues == {Num(20)}

\* rolling(window=ma_short) and rolling(window=ma_long) over one column
nested_windows(r) == isna(r.ma_short) => isna(r.ma_long)

price_rows(rsi_values) ==
    {r \in [Close : Prices, ma_short : MaValues, ma_long : MaValues, RSI : rsi_values] :
        nested_windows(r)}

PriceSide == price_rows(RsiValues)

\* the copies of the ADX statements of calculate_indicators
FilledCopies == {"scan_module", "long_term", "test_suite"}
UnguardedCopies == {"optimizer"}

\* DI+ and DI- of one row
di_pairs(copy, plus, minus) ==
    IF copy \in FilledCopies THEN (plus \cup {Zero}) \X (minus \cup {Zero})
    ELSE IF copy \in UnguardedCopies
    THEN ((plus \cup {Zero}) \X (minus \cup {Zero})) \cup {<<NaN, NaN>>}
    ELSE {<<NaN, NaN>>}

\* df['DX'] of the row
dx_copy(copy, di_plus, di_minus) ==
    IF copy \in FilledCopies THEN dx_of(di_plus, di_minus)
    ELSE dx_of_unguarded(di_plus, di_minus)

momentum_rows(copy, hists, drawdowns, adxs, plus, minus) ==
    {m \in {[MACD_hist |-> h, Drawdown |-> d, ADX |-> a, DIplus |-> p[1], DIminus |-> p[2],
              DX |-> dx_copy(copy, p[1], p[2])] :
                 h \in hists, d \in drawdowns,
                 a \in IF copy \in FilledCopies \cup UnguardedCopies THEN adxs ELSE {NaN},
                 p \in di_pairs(copy, plus, minus)} :
        isna(m.ADX) => isna(m.DX)}

MomentumSide(tool) ==
    momentum_rows(tool, MacdHistValues, DrawdownValues, AdxValues, DiPlusValues, DiMinusValues)
PrevRows == {<<>>} \cup {<<[Drawdown |-> d]>> : d \in DrawdownValues \cup {NaN}}

(***************************************************************************)
(* Each tool's classifier and detector, and the rows its dropna keeps.     *)
(***************************************************************************)
barometer_of(tool, row, config) ==
    IF tool \in {"batch_tester", "stock_analysis"}
    THEN get_barometer_status_batch(row, config)
    ELSE get_barometer_status(row, config)

recovery_of(tool, row, prev_row, config) ==
    CASE tool \in {"optimizer", "test_suite"} -> get_recovery_status(row, prev_row, config)
      [] tool = "long_term" -> get_recovery_status_scan(row, prev_row, config)
      [] tool = "batch_tester" -> get_recovery_status_batch(row, prev_row, config)
      [] tool = "stock_analysis" ->
            \* called as get_recovery_status(row, {'Drawdown': row['prev_Drawdown']}, config)
            get_recovery_status_timing(
                row, IF Len(prev_row) = 0 THEN <<[Drawdown |-> NaN]>> ELSE prev_row, config)

\* df_calc.dropna(...): the columns of the price side whose NaN drops the row
dropna_price(tool, p) ==
    CASE tool \in {"optimizer", "test_suite", "long_term"} ->
            isna(p.ma_short) \/ isna(p.ma_long) \/ isna(p.RSI)
      [] tool = "batch_tester" -> isna(p.ma_long)
      [] tool = "stock_analysis" -> FALSE

\* and those of the momentum side: long_term_backtester calls dropna()
\* without a subset, and DX is the column of its frame that can be missing
\* where the columns of the subset are not (TR and TR_exp are missing on the
\* first bar only, where DX is)
dropna_momentum(tool, m) ==
    CASE tool \in {"optimizer", "test_suite"} ->
            isna(m.MACD_hist) \/ isna(m.Drawdown) \/ isna(m.ADX)
            \/ isna(m.DIplus) \/ isna(m.DIminus)
      [] tool = "long_term" ->
            isna(m.MACD_hist) \/ isna(m.Drawdown) \/ isna(m.ADX)
            \/ isna(m.DIplus) \/ isna(m.DIminus) \/ isna(m.DX)
      [] tool \in {"batch_tester", "stock_analysis"} -> FALSE

(***************************************************************************)
(* The rows of df_calc the simulation loop can meet: the status columns    *)
(* are computed on every row of the frame, then dropna removes rows.       *)
(***************************************************************************)
df_calc_rows(tool, config) ==
    LET prices ==
            {[Close |-> p.Close, Barometer_Status |-> barometer_of(tool, p, config)] :
                p \in {q \in PriceSide : ~dropna_price(tool, q)}}
        recoveries ==
            {recovery_of(tool, mp[1], mp[2], config) :
                mp \in {x \in MomentumSide(tool) \X PrevRows : ~dropna_momentum(tool, x[1])}}
    IN  {[Close |-> b.Close, Barometer_Status |-> b.Barometer_Status,
          Recovery_Status |-> r] : b \in prices, r \in recoveries}

(***************************************************************************)
(* calculate_indicators (the copy of test_suite), on a frame given as a    *)
(* sequence of bars [Close, High, Low], with the pandas operations it      *)
(* calls.  A column is a sequence of numbers and NaN; the frame under      *)
(* construction is a record of columns, and each statement of the function *)
(* is an operator that adds its columns to the frame.                      *)
(***************************************************************************)
NMax(a, b) == IF Gt(b, a) THEN b ELSE a
NSub(a, b) == IF isna(a) \/ isna(b) THEN NaN ELSE Sub(a, b)

\* a column of a frame, every value of it computed once
Series(f) == f \o <<>>

\* the sum of a window, oldest value first
RECURSIVE SumSeq(_, _, _)
SumSeq(xs, lo, hi) == IF lo > hi THEN Zero ELSE Add(SumSeq(xs, lo, hi - 1), xs[hi])

\* Series.rolling(window).mean(): NaN until the window is full; the sum of
\* the window over the number of its values (the windows of this module hold
\* whole numbers, whose sums are exact in doubles whatever the order)
rolling_mean(xs, window) ==
    Series([k \in 1..Len(xs) |->
        IF k < window \/ (\E j \in (k - window + 1)..k : isna(xs[j]))
        THEN NaN
        ELSE Div(SumSeq(xs, k - window + 1, k), Num(window))])

\* variant: the greatest value so far, whatever the window
rolling_max_expanding(xs, window) ==
    Series([k \in 1..Len(xs) |->
        CHOOSE m \in {xs[j] : j \in 1..k} : \A j \in 1..k : ~Gt(xs[j], m)])

\* Series.rolling(window, min_periods=1).max()
rolling_max(xs, window) ==
    Series([k \in 1..Len(xs) |->
        CHOOSE m \in {xs[j] : j \in (IF k < window THEN 1 ELSE k - window + 1)..k} :
            \A j \in (IF k < window THEN 1 ELSE k - window + 1)..k : ~Gt(xs[j], m)])

\* Series.diff()
diff(xs) == Series([k \in 1..Len(xs) |-> IF k = 1 THEN NaN ELSE NSub(xs[k], xs[k - 1])])

\* the average after one more observation, the past weighing old_wt: an
\* observation equal to the average leaves it as it is
ewm_blend(weighted, old_wt, cur, alpha) ==
    IF isna(cur) THEN [weighted |-> weighted, old_wt |-> old_wt]
    ELSE IF Cmp(weighted, cur) = 0 THEN [weighted |-> weighted, old_wt |-> One]
    ELSE [weighted |-> Div(Add(Mul(old_wt, weighted), Mul(alpha, cur)), Add(old_wt, alpha)),
          old_wt |-> One]

\* one step of Series.ewm(span=span, adjust=False).mean(): the running
\* average and the weight of the past.  A NaN observation keeps the average
\* and ages it
ewm_step(p, cur, alpha) ==
    IF isna(p.weighted) THEN [weighted |-> cur, old_wt |-> p.old_wt]
    ELSE ewm_blend(p.weighted, Mul(p.old_wt, Sub(One, alpha)), cur, alpha)

\* the states after each of the first k observations
ewm_next(before, cur, alpha) == Append(before, ewm_step(before[Len(before)], cur, alpha))
RECURSIVE ewm_state(_, _, _)
ewm_state(xs, alpha, k) ==
    IF k = 1 THEN <<[weighted |-> xs[1], old_wt |-> One]>>
    ELSE ewm_next(ewm_state(xs, alpha, k - 1), xs[k], alpha)

ewm_weighted(states) == Series([k \in 1..Len(states) |-> states[k].weighted])

\* alpha = 1 / (1 + (span - 1) / 2), a double where the column holds doubles
ewm_mean(xs, span) ==
    ewm_weighted(ewm_state(xs,
                           IF \E k \in 1..Len(xs) : ~isna(xs[k]) /\ IsDouble(xs[k])
                           THEN ToDouble(Rat(2, span + 1))
                           ELSE Rat(2, span + 1),
                           Len(xs)))

\* 100 - 100 / (1 + rs)
rsi_from(rs) == Sub(Num(100), Div(Num(100), Add(One, rs)))

\* variant: a zero average loss leaves the RSI undefined
rsi_of_propagating(gain, loss) ==
    IF isna(gain) \/ isna(loss) \/ IsZero(loss) THEN NaN
    ELSE rsi_from(Div(gain, loss))

\* 100 - 100 / (1 + gain / loss): 0/0 is NaN, gain/0 is inf and gives 100
rsi_of(gain, loss) ==
    IF isna(gain) \/ isna(loss) THEN NaN
    ELSE IF IsZero(loss) THEN (IF IsZero(gain) THEN NaN ELSE Num(100))
    ELSE rsi_from(Div(gain, loss))

\* (DM_exp / TR_exp).replace(np.inf, 0).fillna(0) * 100
di_of(dm_exp, tr_exp) ==
    IF isna(dm_exp) \/ isna(tr_exp) \/ IsZero(tr_exp) THEN Zero
    ELSE Mul(Div(dm_exp, tr_exp), Num(100))

\* the copy of tools/optimizer.py divides without a guard: 0/0 is NaN, x/0 is inf
di_of_unguarded(dm_exp, tr_exp) ==
    IF isna(dm_exp) \/ isna(tr_exp) THEN NaN
    ELSE IF IsZero(tr_exp) THEN (IF IsZero(dm_exp) THEN NaN ELSE Inf)
    ELSE Mul(Div(dm_exp, tr_exp), Num(100))

\* the price columns of the frame, float64 columns
price_frame(df) ==
    [Close |-> Series([k \in 1..Len(df) |-> Double(df[k].Close)]),
     High |-> Series([k \in 1..Len(df) |-> Double(df[k].High)]),
     Low |-> Series([k \in 1..Len(df) |-> Double(df[k].Low)])]

\* df['ma_short'], df['ma_long']
moving_averages(f, c) ==
    f @@ [ma_short |-> rolling_mean(f.Close, c.ma_short),
          ma_long |-> rolling_mean(f.Close, c.ma_long)]

\* delta.where(delta > 0, 0) and -delta.where(delta < 0, 0)
gains(delta) ==
    Series([k \in 1..Len(delta) |-> IF Gt(delta[k], Zero) THEN delta[k] ELSE Zero])
losses(delta) ==
    Series([k \in 1..Len(delta) |-> IF Lt(delta[k], Zero) THEN NAbs(delta[k]) ELSE Zero])

\* df['RSI']
rsi_column(gain, loss) == Series([k \in 1..Len(gain) |-> rsi_of(gain[k], loss[k])])
relative_strength(f, c) ==
    f @@ [RSI |-> rsi_column(rolling_mean(gains(diff(f.Close)), c.rsi_window),
                             rolling_mean(losses(diff(f.Close)), c.rsi_window))]

\* df['MACD'], df['MACD_signal'], df['MACD_hist']: judge_stock smooths the
\* signal with span macd_fast
column_sub(xs, ys) == Series([k \in 1..Len(xs) |-> NSub(xs[k], ys[k])])
macd_line(f, c) ==
    f @@ [MACD |-> column_sub(ewm_mean(f.Close, c.macd_fast), ewm_mean(f.Close, c.macd_slow))]
macd_signal(copy, f, c) ==
    f @@ [MACD_signal |-> ewm_mean(f.MACD, IF copy = "judge_stock" THEN c.macd_fast
                                             ELSE c.macd_signal)]
macd_hist(f) == f @@ [MACD_hist |-> column_sub(f.MACD, f.MACD_signal)]

\* df['Drawdown'] = df['Close'] / rolling_max - 1
drawdown_column(close, peak) ==
    Series([k \in 1..Len(close) |-> Sub(Div(close[k], peak[k]), One)])
drawdown(f, c) ==
    f @@ [Drawdown |-> drawdown_column(f.Close, rolling_max(f.Close, c.drawdown_window))]

\* df['TR']: the greatest of high - low, |high - previous close| and
\* |low - previous close|; NaN on the first bar, which has no previous close
tr_of(hl, hc, lc) == NMax(NMax(hl, hc), lc)
true_range(f) ==
    f @@ [TR |-> Series([k \in 1..Len(f.Close) |->
                     IF k = 1 THEN NaN
                     ELSE tr_of(Sub(f.High[k], f.Low[k]),
                                NAbs(Sub(f.High[k], f.Close[k - 1])),
                                NAbs(Sub(f.Low[k], f.Close[k - 1])))])]

\* np.where(move > other, np.maximum(move, 0), 0)
dm_of(move, other) == IF Gt(move, other) /\ Gt(move, Zero) THEN move ELSE Zero

\* df['DMplus'], df['DMminus']: 0 on the first bar, whose moves are NaN
directional_movement(f) ==
    f @@ [DMplus |-> Series([k \in 1..Len(f.Close) |->
                         IF k = 1 THEN Zero
                         ELSE dm_of(Sub(f.High[k], f.High[k - 1]),
                                    Sub(f.Low[k - 1], f.Low[k]))]),
          DMminus |-> Series([k \in 1..Len(f.Close) |->
                          IF k = 1 THEN Zero
                          ELSE dm_of(Sub(f.Low[k - 1], f.Low[k]),
                                     Sub(f.High[k], f.High[k - 1]))])]

\* df['TR_exp'], df['DMplus_exp'], df['DMminus_exp']
smoothed(f, c) ==
    f @@ [TR_exp |-> ewm_mean(f.TR, c.adx_period),
          DMplus_exp |-> ewm_mean(f.DMplus, c.adx_period),
          DMminus_exp |-> ewm_mean(f.DMminus, c.adx_period)]

\* df['DIplus'], df['DIminus']: optimizer leaves the division unguarded
di_column(copy, dm_exp, tr_exp) ==
    Series([k \in 1..Len(tr_exp) |->
        IF copy = "optimizer" THEN di_of_unguarded(dm_exp[k], tr_exp[k])
        ELSE di_of(dm_exp[k], tr_exp[k])])
directional_index(copy, f) ==
    f @@ [DIplus |-> di_column(copy, f.DMplus_exp, f.TR_exp),
          DIminus |-> di_column(copy, f.DMminus_exp, f.TR_exp)]

\* df['DX'], df['ADX']
dx_column(copy, f) ==
    f @@ [DX |-> Series([k \in 1..Len(f.Close) |->
                     IF copy = "optimizer" THEN dx_of_unguarded(f.DIplus[k], f.DIminus[k])
                     ELSE dx_of(f.DIplus[k], f.DIminus[k])])]
adx_column(f, c) == f @@ [ADX |-> ewm_mean(f.DX, c.adx_period)]

\* the rows of the frame; judge_stock computes no ADX columns
rows_of(copy, df, f) ==
    Series([k \in 1..Len(df) |->
        IF copy = "judge_stock"
        THEN [Close |-> df[k].Close,
              ma_short |-> f.ma_short[k],
              ma_long |-> f.ma_long[k],
              RSI |-> f.RSI[k],
              MACD |-> f.MACD[k],
              MACD_signal |-> f.MACD_signal[k],
              MACD_hist |-> f.MACD_hist[k],
              Drawdown |-> f.Drawdown[k]]
        ELSE [Close |-> df[k].Close,
              ma_short |-> f.ma_short[k],
              ma_long |-> f.ma_long[k],
              RSI |-> f.RSI[k],
              MACD |-> f.MACD[k],
              MACD_signal |-> f.MACD_signal[k],
              MACD_hist |-> f.MACD_hist[k],
              Drawdown |-> f.Drawdown[k],
              TR_exp |-> f.TR_exp[k],
              DIplus |-> f.DIplus[k],
              DIminus |-> f.DIminus[k],
              DX |-> f.DX[k],
              ADX |-> f.ADX[k]]])

\* the statements up to df['Drawdown'], and those of the ADX
price_columns(copy, f, c) ==
    drawdown(macd_hist(macd_signal(copy, macd_line(relative_strength(moving_averages(f, c), c), c), c)), c)
adx_columns(copy, f, c) ==
    adx_column(dx_column(copy, directional_index(copy, smoothed(directional_movement(true_range(f)), c))), c)

\* the copies of calculate_indicators: scan_module and test_suite are the
\* same text
indicators(copy, df, c) ==
    rows_of(copy, df,
            IF copy = "judge_stock" THEN price_columns(copy, price_frame(df), c)
            ELSE adx_columns(copy, price_columns(copy, price_frame(df), c), c))

\* test_suite's copy
calculate_indicators(df, c) == indicators("test_suite", df, c)

\* the two status columns (whatever the frame carried in them is
\* overwritten) and whether dropna drops the row: its subset of columns
\* leaves out TR_exp and DX, and the status columns are strings, never missing
status_columns(ind, c) ==
    Series([k \in 1..Len(ind) |->
        [Close |-> ind[k].Close,
         Barometer_Status |-> get_barometer_status(ind[k], c),
         Recovery_Status |->
             get_recovery_status(ind[k], IF k > 1 THEN <<ind[k - 1]>> ELSE <<>>, c),
         has_nan |-> \E f \in {"ma_short", "ma_long", "RSI", "MACD", "MACD_signal",
                               "MACD_hist", "Drawdown", "ADX", "DIplus", "DIminus"} :
                         isna(ind[k][f])]])

\* run_single_backtest up to the length guard: the indicators, the statuses
\* computed from them and dropna
with_statuses(df, c) == status_columns(calculate_indicators(df, c), c)

RECURSIVE dropna(_, _)
dropna(rows, k) ==
    IF k > Len(rows) THEN <<>>
    ELSE (IF rows[k].has_nan THEN <<>>
          ELSE <<[Close |-> rows[k].Close,
                  Barometer_Status |-> rows[k].Barometer_Status,
                  Recovery_Status |-> rows[k].Recovery_Status]>>)
         \o dropna(rows, k + 1)

prepare_frame(df, c) == dropna(with_statuses(df, c), 1)

(***************************************************************************)
(* The position simulator: run_single_backtest (optimizer, batch_tester,   *)
(* test_suite), run_long_term_backtest and run_timing_backtest.            *)
(*                                                                         *)
(* One behaviour is one call.  The frame df_calc has n rows; the rows are  *)
(* drawn one at a time, in date order, from the rows the tool's pipeline   *)
(* can produce.  Row 0 is read but never simulated (the loops start at 1). *)
(***************************************************************************)
VARIABLES
    tool,           \* which copy of the simulator runs
    strategy_type,  \* 'conservative' or 'aggressive'
    config,         \* the config the frame was computed with
    frame_rows,     \* the rows df_calc can hold: df_calc_rows(tool, config), fixed by the call
    df,             \* the frame handed to run_single_backtest, <<>> when the rows are drawn
    df_calc,        \* the frame after the indicators, the statuses and dropna, <<>> likewise
    n,              \* len(df_calc)
    i,              \* rows of df_calc consumed so far (the next loop index)
    pc,             \* "prepare", "loop", "done" (a result was returned), "none" (None
                    \* returned); "call" and "returned" around a classifier call
    row,            \* the last row consumed, <<>> before the first
    position,       \* 0 = FLAT, 1 = LONG
    buy_price,
    buy_date,       \* index of the entry bar (stock_analysis's buy_date; elsewhere history)
    trades,         \* the trade counter (run_timing_backtest counts by its list)
    win_trades,
    capital,        \* a double; starts at 1.0 (100000.0 in run_timing_backtest)
    trade_list,     \* run_timing_backtest's list `trades`
    daily_returns,  \* run_long_term_backtest's list, one entry per pass of its loop
    result,         \* the returned (or printed) metrics, <<>> until then
    ledger,         \* history: one entry per execution of `capital *= (1 + profit)`
    was,            \* history: position, buy_price, trade count and capital before the last step
    last_op,        \* history: "init", "first", "step", "closeout", "short"
    fn_row,         \* the argument row of a classifier call, <<>> when none is made
    fn_config,      \* its config
    fn_ret,         \* what it returned, "pending" before
    fn_prev,        \* the prev_row of a detector call: <<>> for None, else <<[Drawdown]>>
    fn_worse,       \* history: every bar detected so far was at or below
                    \* drawdown_no_rain and below the bar before it
    extend,         \* Auto_scan's args.extend (dual-model mode)
    held_tickers,   \* the hold list read at start
    futures,        \* the submitted units of work not yet collected
    outcomes,       \* history: per collected unit, the kind of its result or "failed"
    all_results,    \* Auto_scan's dict, as the sequence of its items in insertion order
    results,        \* batch_tester's list `results`
    stdout,         \* the per-ticker / per-trial lines printed so far
    key_writes,     \* history: per ticker, the assignments `all_results[ticker] = ...`
    clobbered,      \* history: the units whose stored result another unit replaced
    report,         \* the printed report, <<>> before it is printed
    objective,      \* optimizer's args.objective
    trial_config,   \* the config sampled by the current trial, <<>> before the first
    best_score,     \* MinusInf for -float('inf')
    best_config,    \* <<>> for None
    best_details,   \* <<>> for {}
    trial_log,      \* history: one entry per trial of the loop
    hold_file,      \* hold_list.txt: whether it exists, and its bytes
    procs,          \* the Add_delete_hold processes under way: argv, position, current_tickers
    hold_log        \* history: the Add_delete_hold commands that ended, each with the file after it

call_vars == <<tool, strategy_type, config, frame_rows, df, df_calc, n>>
sim_vars == <<i, pc, row, position, buy_price, buy_date, trades, win_trades, capital,
              trade_list, daily_returns, result, ledger, was, last_op>>
fn_vars == <<fn_row, fn_config, fn_ret, fn_prev, fn_worse>>
scan_vars == <<extend, held_tickers, futures, outcomes, all_results, results, stdout,
               key_writes, clobbered, report>>
opt_vars == <<objective, trial_config, best_score, best_config, best_details, trial_log>>
hold_vars == <<hold_file, procs, hold_log>>
job_vars == <<scan_vars, opt_vars, hold_vars>>
vars == <<call_vars, sim_vars, fn_vars, job_vars>>

\* no scan and no optimisation is under way
ScanIdle ==
    /\ extend = FALSE /\ held_tickers = {} /\ futures = {} /\ outcomes = <<>>
    /\ all_results = <<>> /\ results = <<>> /\ stdout = <<>>
    /\ key_writes = <<>> /\ clobbered = {} /\ report = <<>>
OptIdle ==
    /\ objective = "max_return" /\ trial_config = <<>> /\ best_score = <<>>
    /\ best_config = <<>> /\ best_details = <<>> /\ trial_log = <<>>
    /\ hold_file = [exists |-> FALSE, content |-> <<>>] /\ procs = <<>> /\ hold_log = <<>>

\* the length below which the tool returns None before simulating
min_rows(t, c) ==
    CASE t \in {"optimizer", "test_suite"} ->
            IF c.ma_long >= c.drawdown_window /\ c.ma_long >= c.adx_period THEN c.ma_long
            ELSE IF c.drawdown_window >= c.adx_period THEN c.drawdown_window
            ELSE c.adx_period
      [] t \in {"batch_tester", "long_term"} -> 2
      [] t = "stock_analysis" -> 1

initial_capital(t) == IF t = "stock_analysis" THEN Double(100000) ELSE Double(1)

\* the trades the tool has on record: a counter, or the length of a list
recorded_trades == IF tool = "stock_analysis" THEN Len(trade_list) ELSE trades

snapshot ==
    [position |-> position, buy_price |-> buy_price,
     trades |-> recorded_trades, win_trades |-> win_trades, capital |-> capital]

Init ==
    /\ tool \in Tools
    /\ strategy_type \in StrategyTypes(tool)
    /\ config \in ConfigsOf(tool)
    /\ frame_rows = df_calc_rows(tool, config)
    /\ df = <<>> /\ df_calc = <<>>
    /\ n \in 1..MaxBars
    /\ i = 0
    /\ pc = "loop"
    /\ row = <<>>
    /\ position = 0
    /\ buy_price = 0
    /\ buy_date = 0
    /\ trades = 0
    /\ win_trades = 0
    /\ capital = initial_capital(tool)
    /\ trade_list = <<>> /\ daily_returns = <<>>
    /\ result = <<>>
    /\ ledger = <<>>
    /\ was = snapshot
    /\ last_op = "init"
    /\ fn_row = <<>>
    /\ fn_config = <<>>
    /\ fn_ret = "pending"
    /\ fn_prev = <<>> /\ fn_worse = TRUE
    /\ ScanIdle /\ OptIdle

\* variant: the aggressive profile enters on the bare TRIGGER as well
buy_condition_unfiltered(t, st, r) == r.Recovery_Status = "TRIGGER"

buy_condition(t, st, r) ==
    IF t \in SingleBacktestTools /\ st = "aggressive"
    THEN r.Recovery_Status = "TRIGGER" /\ r.Barometer_Status \notin {"RAINY", "TYPHOON"}
    ELSE r.Recovery_Status = "TRIGGER"

\* variant: the aggressive profile keeps the conservative exit set
exit_set_conservative(t, st) == {"RAINY", "TYPHOON"}

exit_set(t, st) ==
    IF t \in SingleBacktestTools /\ st = "aggressive"
    THEN {"OVERCAST", "RAINY", "TYPHOON"}
    ELSE {"RAINY", "TYPHOON"}

sell_condition(t, st, r) == r.Barometer_Status \in exit_set(t, st)

\* variant: the entry branch does not look at the position
loop_branch_reentry(buy, sell, pos) ==
    IF buy THEN "buy"
    ELSE IF sell /\ pos = 1 THEN "sell"
    ELSE "hold"

\* `if buy_condition and position == 0: ... elif sell_condition and position == 1: ...`
loop_branch(buy, sell, pos) ==
    IF buy /\ pos = 0 THEN "buy"
    ELSE IF sell /\ pos = 1 THEN "sell"
    ELSE "hold"

\* `profit = (row['Close'] - buy_price) / buy_price`
profit_of(price, bought) == Div(Sub(Double(price), Double(bought)), Double(bought))

\* `capital *= (1 + profit)`
compounded(cap, profit) == Mul(cap, Add(Double(1), profit))

\* variant: a trade at profit 0 counts as a win
is_win_or_even(profit) == ~Lt(profit, Double(0))

is_win(profit) == Gt(profit, Double(0))

\* variant: the change of the close is recorded on every bar
daily_return_every_bar(pos, close, prev_close) ==
    Sub(Div(Double(close), Double(prev_close)), Double(1))

\* run_long_term_backtest: `if position == 1: daily_returns.append(row['Close'] /
\* prev_row['Close'] - 1) else: daily_returns.append(0)`
daily_return(pos, close, prev_close) ==
    IF pos = 1 THEN Sub(Div(Double(close), Double(prev_close)), Double(1)) ELSE Double(0)

\* `if len(df_calc) < ...: return None`
TooShort ==
    /\ pc = "loop" /\ i = 0
    /\ n < min_rows(tool, config)
    /\ pc' = "none"
    /\ last_op' = "short"
    /\ UNCHANGED <<call_vars, fn_vars, job_vars, i, row, position, buy_price, buy_date,
                   trades, win_trades, capital, trade_list, daily_returns, result, ledger, was>>

\* df_calc.iloc[0]: the loop starts at index 1
FirstRow(r) ==
    /\ pc = "loop" /\ i = 0
    /\ n >= min_rows(tool, config)
    /\ row' = r
    /\ i' = 1
    /\ last_op' = "first"
    /\ UNCHANGED <<call_vars, fn_vars, job_vars, pc, position, buy_price, buy_date,
                   trades, win_trades, capital, trade_list, daily_returns, result, ledger, was>>

\* one pass of `for i in range(1, len(df_calc))`
LoopStep(r) ==
    /\ pc = "loop" /\ 1 <= i /\ i < n
    /\ row' = r
    /\ i' = i + 1
    /\ was' = snapshot
    /\ last_op' = "step"
    /\ LET branch == loop_branch(buy_condition(tool, strategy_type, r),
                                 sell_condition(tool, strategy_type, r), position)
       IN
       IF branch = "buy"
       THEN /\ position' = 1
            /\ buy_price' = r.Close
            /\ buy_date' = i
            /\ UNCHANGED <<trades, win_trades, capital, trade_list, ledger>>
       ELSE IF branch = "sell"
       THEN LET profit == profit_of(r.Close, buy_price)
            IN  /\ position' = 0
                /\ capital' = compounded(capital, profit)
                /\ ledger' = Append(ledger, [entry_date |-> buy_date, exit_date |-> i,
                                             profit |-> profit])
                /\ IF tool = "stock_analysis"
                   THEN /\ trade_list' = Append(trade_list,
                                [buy_date |-> buy_date, sell_date |-> i, profit |-> profit])
                        /\ UNCHANGED <<trades, win_trades>>
                   ELSE /\ trades' = trades + 1
                        /\ win_trades' = IF is_win(profit) THEN win_trades + 1 ELSE win_trades
                        /\ UNCHANGED trade_list
                /\ UNCHANGED <<buy_price, buy_date>>
       ELSE UNCHANGED <<position, buy_price, buy_date, trades, win_trades, capital,
                        trade_list, ledger>>
    /\ daily_returns' = IF tool = "long_term"
                        THEN Append(daily_returns, daily_return(position, r.Close, row.Close))
                        ELSE daily_returns
    /\ UNCHANGED <<call_vars, fn_vars, job_vars, pc, result>>

\* the code after the loop: the forced close-out, then the metrics
win_rate_of(t, wins, count, list) ==
    IF t = "stock_analysis"
    THEN IF Len(list) > 0
         THEN Div(Double(Cardinality({k \in 1..Len(list) : is_win(list[k].profit)})),
                  Double(Len(list)))
         ELSE <<>>                          \* `if trades:` -- nothing is printed
    ELSE IF count > 0 THEN Div(Double(wins), Double(count)) ELSE Double(0)

\* `capital - 1.0`; `(capital - initial_capital) / initial_capital` in
\* run_timing_backtest
total_return_of(t, cap) ==
    IF t = "stock_analysis"
    THEN Div(Sub(cap, initial_capital(t)), initial_capital(t))
    ELSE Sub(cap, Double(1))

CloseOut ==
    /\ pc = "loop" /\ i = n /\ i >= 1
    /\ was' = snapshot
    /\ last_op' = "closeout"
    /\ pc' = "done"
    /\ IF position = 1
       THEN LET profit == profit_of(row.Close, buy_price)
            IN  /\ capital' = compounded(capital, profit)
                /\ ledger' = Append(ledger, [entry_date |-> buy_date, exit_date |-> n - 1,
                                             profit |-> profit])
                /\ IF tool = "stock_analysis"
                   THEN UNCHANGED <<trades, win_trades>>
                   ELSE /\ trades' = trades + 1
                        /\ win_trades' = IF is_win(profit) THEN win_trades + 1 ELSE win_trades
       ELSE UNCHANGED <<capital, ledger, trades, win_trades>>
    /\ result' = [total_return |-> total_return_of(tool, capital'),
                  win_rate |-> win_rate_of(tool, win_trades', trades', trade_list),
                  trades |-> IF tool = "stock_analysis" THEN Len(trade_list) ELSE trades']
    /\ UNCHANGED <<call_vars, fn_vars, job_vars, i, row, position, buy_price, buy_date, trade_list,
                   daily_returns>>

First == \E r \in frame_rows : FirstRow(r)
Loop == \E r \in frame_rows : LoopStep(r)

Next == TooShort \/ First \/ Loop \/ CloseOut

Spec == Init /\ [][Next]_vars

TypeOK ==
    /\ position \in {0, 1}
    /\ i \in 0..n
    /\ pc \in {"prepare", "loop", "done", "none", "call", "returned", "detect", "recommend",
              "scan", "report", "trial"}

(***************************************************************************)
(* Properties of the simulator.                                            *)
(*                                                                         *)
(* The properties name the exit sets and the entry condition on their own, *)
(* not through exit_set and buy_condition.  A step of the loop is a        *)
(* transition that consumes a row after row 0.                             *)
(***************************************************************************)
StatedExitSet ==
    IF strategy_type = "aggressive"
    THEN {"OVERCAST", "RAINY", "TYPHOON"}
    ELSE {"RAINY", "TYPHOON"}

StatedEntry(r) ==
    /\ r.Recovery_Status = "TRIGGER"
    /\ strategy_type = "aggressive" => r.Barometer_Status \notin {"RAINY", "TYPHOON"}

IsLoopStep == i >= 1 /\ i' = i + 1

\* the numbers of the properties, in the code's float64 operations:
\* (close - entry) / entry, and a capital times 1 + that
StatedProfit(close, entry) == FDiv(FSub(Double(close), Double(entry)), Double(entry))
StatedGrowth(cap, close, entry) == FMul(cap, FAdd(Double(1), StatedProfit(close, entry)))

\* a capital multiplied by 1 + profit once per trade of a list, oldest first
RECURSIVE Compounded(_, _, _)
Compounded(start, profits, k) ==
    IF k = 0 THEN start
    ELSE FMul(Compounded(start, profits, k - 1), FAdd(Double(1), profits[k]))

ProfitsOf(list) == [k \in 1..Len(list) |-> list[k].profit]

\* C1, as stated: at most one position is open; a TRIGGER on a bar where the
\* simulator is LONG changes neither the position nor the entry price, and an
\* exit-set regime on a bar where it is FLAT changes neither the position, the
\* trade count nor the capital.
C1_AsStated ==
    [][IsLoopStep =>
        /\ position' \in {0, 1}
        /\ (position = 1 /\ row'.Recovery_Status = "TRIGGER") =>
                (position' = 1 /\ buy_price' = buy_price)
        /\ (position = 0 /\ row'.Barometer_Status \in StatedExitSet) =>
                (position' = 0 /\ recorded_trades' = recorded_trades /\ capital' = capital)
      ]_vars

\* C1, amended: at most one position is open; a TRIGGER on a bar where the
\* simulator is LONG never changes the entry price or the entry bar, and the
\* position stays LONG unless that bar's regime is in the exit set (the exit
\* then fires); an exit-set regime on a bar where the simulator is FLAT changes
\* neither the trade count nor the capital, and the position stays FLAT unless
\* that bar's entry condition holds (the entry then fires).
C1_SinglePosition ==
    [][IsLoopStep =>
        /\ position' \in {0, 1}
        /\ (position = 1 /\ row'.Recovery_Status = "TRIGGER") =>
                /\ buy_price' = buy_price
                /\ buy_date' = buy_date
                /\ position' = 1 <=> row'.Barometer_Status \notin StatedExitSet
        /\ (position = 0 /\ row'.Barometer_Status \in StatedExitSet) =>
                /\ recorded_trades' = recorded_trades
                /\ capital' = capital
                /\ position' = 0 <=> ~StatedEntry(row')
      ]_vars

\* a TRIGGER at another price met the simulator LONG and changed nothing
C1_Witness ==
    /\ last_op = "step"
    /\ was.position = 1 /\ position = 1
    /\ row.Recovery_Status = "TRIGGER"
    /\ row.Close # buy_price
    /\ buy_price = was.buy_price

\* C2: every realized trade, the forced close-out's included, has its entry
\* bar strictly before its exit bar, and the trades follow one another in date
\* order without overlapping.
C2_EntryBeforeExit ==
    \A k \in 1..Len(ledger) :
        /\ ledger[k].entry_date < ledger[k].exit_date
        /\ k > 1 => ledger[k].entry_date >= ledger[k - 1].exit_date

\* C3: the forced close-out is applied once, after the last bar, iff the
\* simulator is LONG then; it exits at the last bar's close, counts as one
\* trade and leaves the simulator FLAT; when the simulator ends FLAT nothing
\* is closed out and the capital is unchanged.
C3_ForcedCloseOut ==
    last_op = "closeout" =>
        IF was.position = 1
        THEN /\ i = n
             /\ capital = StatedGrowth(was.capital, row.Close, was.buy_price)
             /\ recorded_trades = was.trades + 1
             /\ position = 0
        ELSE /\ capital = was.capital
             /\ recorded_trades = was.trades

\* C4: the total return a backtest reports is the product of (1 + profit) over
\* the trades it has on record, minus 1 (the return of the initial capital
\* multiplied once per recorded trade): every multiplication of the capital is
\* one recorded trade and every recorded trade one multiplication.
C4_ReturnIsProductOfTrades ==
    pc = "done" =>
        LET profits == IF tool = "stock_analysis"
                       THEN ProfitsOf(trade_list) ELSE ProfitsOf(ledger)
            grown == Compounded(initial_capital(tool), profits, Len(profits))
        IN  /\ result.trades = Len(ledger)
            /\ result.total_return =
                  IF tool = "stock_analysis"
                  THEN FDiv(FSub(grown, Double(100000)), Double(100000))
                  ELSE FSub(grown, Double(1))

\* C5, as stated: on every bar, the first included, and in both profiles, a
\* FLAT simulator that meets TRIGGER becomes LONG at that bar's close.
C5_AsStated ==
    [][(i' = i + 1 /\ position = 0 /\ row'.Recovery_Status = "TRIGGER") =>
            (position' = 1 /\ buy_price' = row'.Close)
      ]_vars

\* C5, amended: on every bar after the first of the simulated frame, a FLAT
\* simulator that meets TRIGGER -- in the aggressive profile only on a bar whose
\* regime is neither RAINY nor TYPHOON -- becomes LONG at that bar's close; the
\* first bar is never simulated, and an aggressive TRIGGER on a RAINY or
\* TYPHOON bar opens nothing.
C5_EntryOnTrigger ==
    [][(i' = i + 1 /\ position = 0 /\ row'.Recovery_Status = "TRIGGER") =>
            IF i >= 1 /\ (strategy_type = "aggressive" =>
                              row'.Barometer_Status \notin {"RAINY", "TYPHOON"})
            THEN position' = 1 /\ buy_price' = row'.Close /\ buy_date' = i
            ELSE position' = 0 /\ buy_price' = buy_price
      ]_vars

\* an aggressive run entered on a TRIGGER bar at that bar's close
C5_Witness ==
    /\ last_op = "step"
    /\ strategy_type = "aggressive"
    /\ was.position = 0 /\ position = 1
    /\ row.Recovery_Status = "TRIGGER"
    /\ buy_price = row.Close /\ buy_price # was.buy_price
    /\ buy_date = i - 1

\* C6: while LONG, a step of the loop exits exactly when the bar's regime is in
\* the profile's exit set; the exit realizes (close - entry_price)/entry_price,
\* multiplies the capital by 1 + that and records one trade; a bar outside the
\* exit set closes nothing.
C6_ExitOnRegime ==
    [][(IsLoopStep /\ position = 1) =>
            IF row'.Barometer_Status \in StatedExitSet
            THEN /\ position' = 0
                 /\ capital' = StatedGrowth(capital, row'.Close, buy_price)
                 /\ recorded_trades' = recorded_trades + 1
                 /\ ledger'[Len(ledger')].profit = StatedProfit(row'.Close, buy_price)
            ELSE /\ position' = 1
                 /\ capital' = capital
                 /\ recorded_trades' = recorded_trades
                 /\ ledger' = ledger
      ]_vars

\* an aggressive run left a position on an OVERCAST bar, at a loss
C6_Witness ==
    /\ last_op = "step"
    /\ strategy_type = "aggressive"
    /\ was.position = 1 /\ position = 0
    /\ row.Barometer_Status = "OVERCAST"
    /\ row.Close < buy_price
    /\ recorded_trades = was.trades + 1

\* C8: in the copies that return a win rate, 0 <= win_trades <= trades always;
\* the win rate is (trades with profit > 0) / (trades), and 0 without trades;
\* a run without trades returns total_return 0 and win_rate 0.
C8_WinRate ==
    /\ 0 <= win_trades /\ win_trades <= trades
    /\ (pc = "done" /\ tool # "stock_analysis") =>
          LET wins == Cardinality({k \in 1..Len(ledger) :
                                      FCmp(ledger[k].profit, Double(0)) > 0})
          IN  /\ trades = Len(ledger)
              /\ win_trades = wins
              /\ result.win_rate = IF Len(ledger) = 0 THEN Double(0)
                                   ELSE FDiv(Double(wins), Double(Len(ledger)))
              /\ Len(ledger) = 0 => result.total_return = Double(0)

\* a finished run with a winning trade and a trade at profit 0
C8_Witness ==
    /\ pc = "done" /\ tool # "stock_analysis"
    /\ trades = 2 /\ win_trades = 1
    /\ \E k \in 1..Len(ledger) : ledger[k].profit = Double(0)
    /\ result.win_rate = FDiv(Double(1), Double(2))

\* C9: no entry and no exit is executed on a bar whose regime or recovery
\* signal is INSUFFICIENT_DATA.
C9_NoTradeOnInsufficientData ==
    (last_op = "step" /\ "INSUFFICIENT_DATA" \in {row.Barometer_Status, row.Recovery_Status})
        => (position = was.position /\ capital = was.capital)

(***************************************************************************)
(* get_barometer_status as a function of one indicator row: a call on a    *)
(* row drawn from a grid that holds every ordering of close and the two    *)
(* averages, undefined averages and RSI values on both sides of and equal  *)
(* to every threshold.                                                     *)
(***************************************************************************)
ClassifyRsiValues ==
    {NaN} \cup {Num(v) : v \in {20, 30, 40, 42, 45, 50, 55, 60}}

ClassifyRows == price_rows(ClassifyRsiValues)

InitClassify ==
    /\ fn_row \in ClassifyRows
    /\ fn_config \in {ConfSmall, ConfInverted}
    /\ fn_ret = "pending"
    /\ fn_prev = <<>> /\ fn_worse = TRUE
    /\ ScanIdle /\ OptIdle
    /\ tool = "optimizer" /\ strategy_type = "conservative" /\ config = fn_config
    /\ frame_rows = {} /\ df = <<>> /\ df_calc = <<>> /\ n = 0
    /\ i = 0 /\ pc = "call" /\ row = <<>>
    /\ position = 0 /\ buy_price = 0 /\ buy_date = 0
    /\ trades = 0 /\ win_trades = 0 /\ capital = Double(1)
    /\ trade_list = <<>> /\ daily_returns = <<>> /\ result = <<>> /\ ledger = <<>>
    /\ was = snapshot /\ last_op = "init"

Classify ==
    /\ pc = "call"
    /\ fn_ret' = get_barometer_status(fn_row, fn_config)
    /\ pc' = "returned"
    /\ UNCHANGED <<call_vars, fn_row, fn_config, fn_prev, fn_worse, job_vars, i, row, position,
                   buy_price, buy_date, trades, win_trades, capital, trade_list, daily_returns, result,
                   ledger, was, last_op>>

NextClassify == Classify

SpecClassify == InitClassify /\ [][NextClassify]_vars

\* the row's numbers, read only where they are defined
RsiBelow(threshold) == fn_row.RSI # NaN /\ fn_row.RSI[1] < threshold
RsiAbove(threshold) == fn_row.RSI # NaN /\ fn_row.RSI[1] > threshold
AveragesDefined == fn_row.ma_short # NaN /\ fn_row.ma_long # NaN
CloseVsShort == fn_row.Close - fn_row.ma_short[1]
CloseVsLong == fn_row.Close - fn_row.ma_long[1]
ShortVsLong == fn_row.ma_short[1] - fn_row.ma_long[1]

\* C10: get_barometer_status returns one regime label, by the first rule that
\* matches in the order INSUFFICIENT_DATA, SUNNY, CLOUDY_BRIGHT, OVERCAST,
\* RAINY, TYPHOON, else OVERCAST: close > ma_short > ma_long with RSI above
\* rsi_bull_threshold is SUNNY; close below both averages with RSI below both
\* rsi_bear_threshold and rsi_oversold is RAINY, not TYPHOON; a row no rule
\* matches (close equal to an average, or close below both averages with RSI
\* at or above both thresholds) is OVERCAST.
C10_FirstMatchWins ==
    pc = "returned" =>
      /\ fn_ret \in RegimeLabels
      /\ fn_ret = "INSUFFICIENT_DATA" <=> ~AveragesDefined
      /\ AveragesDefined =>
           LET sunny == CloseVsShort > 0 /\ ShortVsLong > 0
                        /\ RsiAbove(fn_config.rsi_bull_threshold)
               cloudy == CloseVsShort > 0 /\ CloseVsLong > 0
               between == \/ CloseVsLong < 0 /\ CloseVsShort > 0
                          \/ CloseVsShort < 0 /\ CloseVsLong > 0
               below == CloseVsShort < 0 /\ CloseVsLong < 0
               rainy == below /\ RsiBelow(fn_config.rsi_bear_threshold)
               typhoon == below /\ RsiBelow(fn_config.rsi_oversold)
           IN  /\ fn_ret = "SUNNY" <=> sunny
               /\ fn_ret = "CLOUDY_BRIGHT" <=> (~sunny /\ cloudy)
               /\ fn_ret = "RAINY" <=> rainy
               /\ fn_ret = "TYPHOON" <=> (~rainy /\ typhoon)
               /\ fn_ret = "OVERCAST" <=> (~sunny /\ ~cloudy /\ ~rainy /\ ~typhoon)
               /\ (rainy /\ typhoon) => fn_ret = "RAINY"
               /\ (CloseVsShort = 0 \/ CloseVsLong = 0) => fn_ret = "OVERCAST"
               /\ (below /\ fn_row.RSI # NaN
                         /\ fn_row.RSI[1] >= fn_config.rsi_bear_threshold
                         /\ fn_row.RSI[1] >= fn_config.rsi_oversold) => fn_ret = "OVERCAST"
               /\ between => fn_ret = "OVERCAST"

\* a row below both averages with RSI below both thresholds came back RAINY
\* from a configuration whose rsi_oversold lies above its rsi_bear_threshold
C10_Witness ==
    /\ pc = "returned"
    /\ fn_ret = "RAINY"
    /\ AveragesDefined /\ CloseVsShort < 0 /\ CloseVsLong < 0
    /\ RsiBelow(fn_config.rsi_bear_threshold) /\ RsiBelow(fn_config.rsi_oversold)
    /\ fn_config.rsi_oversold > fn_config.rsi_bear_threshold

(***************************************************************************)
(* The scenario of test_run_single_backtest_conservative_aggressive: the   *)
(* whole of run_single_backtest (test_suite) on a frame of rising closes   *)
(* that carries a forced Recovery_Status and Barometer_Status column.      *)
(* The test's frame is Close = linspace(98, 108, 50), High = Close + 2,    *)
(* Low = Close - 8 cut to 7 (conservative) or 6 (aggressive) bars; in      *)
(* units of 1/49 it is the frame that starts at 4802 and rises by 10.      *)
(* Every indicator the statuses read is a ratio of prices or is compared   *)
(* with 0, so the unit changes no status and no return.                    *)
(***************************************************************************)
forced_recovery(index) == IF index = 2 THEN "TRIGGER" ELSE "NONE"
forced_barometer(index) ==
    IF index = 4 THEN "OVERCAST" ELSE IF index = 5 THEN "RAINY" ELSE "SUNNY"

rising_frame(start, step, high, low, length) ==
    [k \in 1..length |->
        [Close |-> start + step * (k - 1),
         High |-> start + step * (k - 1) + high,
         Low |-> start + step * (k - 1) - low,
         Barometer_Status |-> forced_barometer(k - 1),
         Recovery_Status |-> forced_recovery(k - 1)]]

ScenarioFrames ==
    {rising_frame(start, step, hl[1], hl[2], length) :
        start \in {4802, 98, 10}, step \in {10, 2, 1},
        hl \in {<<98, 392>>, <<2, 8>>}, length \in {2, 6, 7}}

InitScenario ==
    /\ tool = "test_suite"
    /\ strategy_type \in {"conservative", "aggressive"}
    /\ config = ConfSmall
    /\ frame_rows = {}
    /\ df \in ScenarioFrames
    /\ df_calc = <<>>
    /\ n = 0
    /\ i = 0
    /\ pc = "prepare"
    /\ row = <<>>
    /\ position = 0 /\ buy_price = 0 /\ buy_date = 0
    /\ trades = 0 /\ win_trades = 0 /\ capital = Double(1)
    /\ trade_list = <<>> /\ daily_returns = <<>> /\ result = <<>> /\ ledger = <<>>
    /\ was = snapshot /\ last_op = "init"
    /\ fn_row = <<>> /\ fn_config = <<>> /\ fn_ret = "pending"
    /\ fn_prev = <<>> /\ fn_worse = TRUE
    /\ ScanIdle /\ OptIdle

\* lines 82-91: df_calc = calculate_indicators(df.copy(), config), the two
\* status columns, dropna
Prepare ==
    /\ pc = "prepare"
    /\ df_calc' = prepare_frame(df, config)
    /\ n' = Len(df_calc')
    /\ pc' = "loop"
    /\ last_op' = "prepare"
    /\ UNCHANGED <<tool, strategy_type, config, frame_rows, df, fn_vars, job_vars, i, row, position,
                   buy_price, buy_date, trades, win_trades, capital, trade_list, daily_returns, result,
                   ledger, was>>

ScenarioFirst == Len(df_calc) >= 1 /\ FirstRow(df_calc[1])
ScenarioLoop == i < Len(df_calc) /\ LoopStep(df_calc[i + 1])

NextScenario == Prepare \/ TooShort \/ ScenarioFirst \/ ScenarioLoop \/ CloseOut

SpecScenario == InitScenario /\ [][NextScenario]_vars

\* C7: on a rising frame of at least 6 bars whose Recovery_Status column is
\* TRIGGER at index 2 only and whose Barometer_Status column is OVERCAST at
\* index 4, RAINY at index 5 and SUNNY elsewhere, run_single_backtest returns
\* one trade, bought at close[2] and sold at close[5] (conservative) or at
\* close[4] (aggressive): strategy_return = close[exit] / close[2] - 1.
C7_ScenarioA ==
    (pc \in {"done", "none"} /\ Len(df) >= 6) =>
        LET exit == IF strategy_type = "conservative" THEN 5 ELSE 4
        IN  /\ pc = "done"
            /\ result.trades = 1
            /\ Len(ledger) = 1
            /\ result.total_return =
                  FSub(StatedGrowth(Double(1), df[exit + 1].Close, df[2 + 1].Close),
                       Double(1))

(***************************************************************************)
(* The copies of get_barometer_status, each called on a row of the grid.   *)
(***************************************************************************)
BarometerCopies ==
    {"scan_module", "optimizer", "test_suite", "batch_tester", "stock_analysis",
     "judge_stock"}

barometer_copy(copy, r, c) ==
    CASE copy \in {"scan_module", "optimizer", "test_suite"} -> get_barometer_status(r, c)
      [] copy \in {"batch_tester", "stock_analysis"} -> get_barometer_status_batch(r, c)
      [] copy = "judge_stock" -> get_barometer_status_judge(r, c)

InitCopies ==
    /\ tool \in BarometerCopies
    /\ fn_row \in ClassifyRows
    /\ fn_config \in {ConfSmall, ConfInverted}
    /\ fn_ret = "pending"
    /\ fn_prev = <<>> /\ fn_worse = TRUE
    /\ ScanIdle /\ OptIdle
    /\ strategy_type = "conservative" /\ config = fn_config
    /\ frame_rows = {} /\ df = <<>> /\ df_calc = <<>> /\ n = 0
    /\ i = 0 /\ pc = "call" /\ row = <<>>
    /\ position = 0 /\ buy_price = 0 /\ buy_date = 0
    /\ trades = 0 /\ win_trades = 0 /\ capital = Double(1)
    /\ trade_list = <<>> /\ daily_returns = <<>> /\ result = <<>> /\ ledger = <<>>
    /\ was = snapshot /\ last_op = "init"

ClassifyCopy ==
    /\ pc = "call"
    /\ fn_ret' = barometer_copy(tool, fn_row, fn_config)
    /\ pc' = "returned"
    /\ UNCHANGED <<call_vars, fn_row, fn_config, fn_prev, fn_worse, job_vars, i, row, position,
                   buy_price, buy_date, trades, win_trades, capital, trade_list, daily_returns, result,
                   ledger, was, last_op>>

NextCopies == ClassifyCopy

SpecCopies == InitCopies /\ [][NextCopies]_vars

\* C11: in every copy of the regime classifier, a row whose ma_long or
\* ma_short is undefined comes back INSUFFICIENT_DATA, never a weather regime,
\* whatever its close and RSI.
C11_UndefinedAverage ==
    (pc = "returned" /\ (fn_row.ma_long = NaN \/ fn_row.ma_short = NaN))
        => fn_ret = "INSUFFICIENT_DATA"

\* the copy that tests ma_long alone was given a row of the first ma_long - 1
\* bars, whose close is above its defined short average
C11_Witness ==
    /\ pc = "returned" /\ tool = "stock_analysis"
    /\ fn_row.ma_long = NaN /\ fn_row.ma_short # NaN
    /\ fn_row.RSI # NaN
    /\ fn_row.Close * fn_row.ma_short[2] > fn_row.ma_short[1]
    /\ fn_ret = "INSUFFICIENT_DATA"

\* C26: the copy of get_barometer_status in the test suite returns, on every
\* row and config, what the production copies of judge_stock, scan_module
\* and batch_tester return.
C26_CopiesAgree ==
    (pc = "returned" /\ tool \in {"judge_stock", "scan_module", "batch_tester"})
        => fn_ret = barometer_copy("test_suite", fn_row, fn_config)

(***************************************************************************)
(* The copies of get_recovery_status with the weather-free labels, called  *)
(* bar after bar the way every pipeline calls them:                        *)
(*   get_recovery_status(df.iloc[i], df.iloc[i-1] if i > 0 else None, c)   *)
(* Of the previous row only Drawdown is read, and only it is kept.         *)
(***************************************************************************)
MaxCalls == 3

RecoveryCopies == {"scan_module", "optimizer", "test_suite", "batch_tester", "judge_stock"}

\* the rows a copy is called with: a frame whose first closes are missing
\* has its MACD_hist and Drawdown undefined there
RecoveryRows(copy) ==
    momentum_rows(copy, {NaN, Num(0), Num(1)}, DrawdownValues \cup {NaN},
                  {NaN, Num(20), Num(30)}, {Num(20), Num(30)}, {Num(20)})

recovery_copy(copy, r, prev, c) ==
    CASE copy \in {"optimizer", "test_suite"} -> get_recovery_status(r, prev, c)
      [] copy = "scan_module" -> get_recovery_status_scan(r, prev, c)
      [] copy \in {"batch_tester", "judge_stock"} -> get_recovery_status_batch(r, prev, c)

InitRecovery ==
    /\ tool \in RecoveryCopies
    /\ fn_config = ConfSmall
    /\ fn_row = <<>> /\ fn_prev = <<>> /\ fn_ret = "pending" /\ fn_worse = TRUE
    /\ ScanIdle /\ OptIdle
    /\ strategy_type = "conservative" /\ config = fn_config
    /\ frame_rows = {} /\ df = <<>> /\ df_calc = <<>> /\ n = MaxCalls
    /\ i = 0 /\ pc = "detect" /\ row = <<>>
    /\ position = 0 /\ buy_price = 0 /\ buy_date = 0
    /\ trades = 0 /\ win_trades = 0 /\ capital = Double(1)
    /\ trade_list = <<>> /\ daily_returns = <<>> /\ result = <<>> /\ ledger = <<>>
    /\ was = snapshot /\ last_op = "init"

Detect(r) ==
    /\ pc = "detect" /\ i < n
    /\ fn_row' = r
    /\ fn_prev' = IF i = 0 THEN <<>> ELSE <<[Drawdown |-> fn_row.Drawdown]>>
    /\ fn_ret' = recovery_copy(tool, r, fn_prev', fn_config)
    /\ fn_worse' = (/\ fn_worse
                    /\ Le(r.Drawdown, fn_config.drawdown_no_rain)
                    /\ i > 0 => Lt(r.Drawdown, fn_row.Drawdown))
    /\ i' = i + 1
    /\ UNCHANGED <<call_vars, job_vars, fn_config, pc, row, position, buy_price, buy_date, trades,
                   win_trades, capital, trade_list, daily_returns, result, ledger, was, last_op>>

NextRecovery == \E r \in RecoveryRows(tool) : Detect(r)

SpecRecovery == InitRecovery /\ [][NextRecovery]_vars

\* the detector's inputs, read only where they are defined
AllDefined ==
    /\ fn_row.MACD_hist # NaN /\ fn_row.Drawdown # NaN /\ fn_row.ADX # NaN
    /\ fn_row.DIplus # NaN /\ fn_row.DIminus # NaN
PreviousDrawdown ==
    IF fn_prev = <<>> \/ fn_prev[1].Drawdown = NaN THEN Zero ELSE fn_prev[1].Drawdown
AtOrBelowNoRain ==
    fn_row.Drawdown[1] * fn_config.drawdown_no_rain[2]
        <= fn_config.drawdown_no_rain[1] * fn_row.Drawdown[2]
AbovePrevious ==
    fn_row.Drawdown[1] * PreviousDrawdown[2] > PreviousDrawdown[1] * fn_row.Drawdown[2]
FiveConditions ==
    /\ AtOrBelowNoRain
    /\ AbovePrevious
    /\ fn_row.MACD_hist[1] > 0
    /\ fn_row.ADX[1] > fn_config.adx_threshold
    /\ fn_row.DIplus[1] > fn_row.DIminus[1]
FiveFieldCopies == {"scan_module", "optimizer", "test_suite"}

\* C12: for a current row with every field defined and any previous row,
\* get_recovery_status (scan_module, optimizer, test_suite) returns TRIGGER
\* iff drawdown <= drawdown_no_rain, drawdown > previous drawdown (0 when
\* there is no previous row or its drawdown is undefined), MACD_hist > 0,
\* ADX > adx_threshold and DI+ > DI-, and NONE otherwise.
C12_TriggerIffFive ==
    (pc = "detect" /\ i > 0 /\ tool \in FiveFieldCopies /\ AllDefined) =>
        fn_ret = IF FiveConditions THEN "TRIGGER" ELSE "NONE"

\* a row that holds the five conditions against a defined previous drawdown
\* got TRIGGER
C12_Witness ==
    /\ pc = "detect" /\ i > 1 /\ tool \in FiveFieldCopies /\ AllDefined
    /\ fn_prev # <<>> /\ fn_prev[1].Drawdown # NaN
    /\ FiveConditions
    /\ fn_ret = "TRIGGER"

\* C13: get_recovery_status (scan_module, optimizer, test_suite) returns
\* INSUFFICIENT_DATA, never TRIGGER or NONE, whenever one of MACD_hist,
\* drawdown, ADX, DI+ or DI- is undefined on the current row.
C13_UndefinedField ==
    (pc = "detect" /\ i > 0 /\ tool \in FiveFieldCopies /\ ~AllDefined) =>
        fn_ret = "INSUFFICIENT_DATA"

\* a row with DI+ and DI- undefined (optimizer's, on a bar whose true range
\* is 0) and MACD_hist, the drawdown and ADX defined got INSUFFICIENT_DATA
C13_Witness ==
    /\ pc = "detect" /\ i > 2 /\ tool = "optimizer"
    /\ fn_row.DIplus = NaN /\ fn_row.DIminus = NaN
    /\ fn_row.MACD_hist # NaN /\ fn_row.Drawdown # NaN /\ fn_row.ADX # NaN
    /\ fn_ret = "INSUFFICIENT_DATA"

\* C14: over bars whose drawdown is at or below drawdown_no_rain and below
\* the drawdown of the bar before, the detector returns NONE on every bar
\* whatever MACD_hist, ADX, DI+ and DI- are (INSUFFICIENT_DATA when the copy
\* finds one of them undefined), and the first bar of a series is never a
\* TRIGGER.
C14_WorseningNeverTriggers ==
    (pc = "detect" /\ i > 0) =>
        /\ fn_worse => fn_ret \in {"NONE", "INSUFFICIENT_DATA"}
        /\ (fn_worse /\ AllDefined) => fn_ret = "NONE"
        /\ i = 1 => fn_ret # "TRIGGER"

\* the third bar of a worsening series, strong on every other count, got NONE
C14_Witness ==
    /\ pc = "detect" /\ i = 3 /\ fn_worse /\ AllDefined
    /\ tool = "scan_module"
    /\ fn_ret = "NONE"
    /\ fn_row.MACD_hist[1] > 0
    /\ fn_row.ADX[1] > fn_config.adx_threshold
    /\ fn_row.DIplus[1] > fn_row.DIminus[1]

(***************************************************************************)
(* Label texts.  A Python string is the sequence of its Unicode code       *)
(* points; `x in y` is the substring test and `==` is equality of the      *)
(* sequences.                                                              *)
(***************************************************************************)
IsSubstring(needle, hay) ==
    \E k \in 0..(Len(hay) - Len(needle)) :
        \A j \in 1..Len(needle) : hay[k + j] = needle[j]

\* the string literals of the sources, by a name: the regime and recovery
\* labels, the recommendation texts of scan_module, test_suite and judge_stock
\* (the *Judge names), the statuses of analyze_ticker, the combined advice of
\* get_final_verbal_score and the words Auto_scan searches the texts for
Text(name) ==
    CASE name = "Sunny" -> <<9728, 65039, 32, 26228, 22825>>
      [] name = "CloudyBright" -> <<127781, 65039, 32, 22810, 38642>>
      [] name = "Overcast" -> <<9729, 65039, 32, 38512, 22825>>
      [] name = "Rainy" -> <<127783, 65039, 32, 38632, 22825>>
      [] name = "Typhoon" -> <<9928, 65039, 32, 39089, 39080, 22825>>
      [] name = "InsufficientScan" -> <<25976, 25818, 19981, 36275>>
      [] name = "Insufficient" -> <<36039, 26009, 19981, 36275>>
      [] name = "Trigger" -> <<25765, 38642, 35211, 26085>>
      [] name = "None" -> <<28961, 38632>>
      [] name = "Rain" -> <<38632, 22825>>
      [] name = "Storm" -> <<39089, 39080, 22825>>
      [] name = "Enter" -> <<128994, 32, 24314, 35696, 36914, 22580>>
      [] name = "Exit" -> <<128308, 32, 24314, 35696, 20986, 22580, 25110, 31354,
                25163>>
      [] name = "Hold" -> <<128993, 32, 24314, 35696, 25345, 26377, 25110, 35264,
                26395>>
      [] name = "EnterJudge" -> <<128994, 32, 24314, 35696, 36914, 22580, 32, 40, 20597,
                28204, 21040, 32, 39, 25765, 38642, 35211, 26085,
                39, 32, 36023, 20837, 35338, 34399, 41>>
      [] name = "ExitJudge" -> <<128308, 32, 24314, 35696, 20986, 22580, 25110, 31354,
                25163, 32, 40, 24066, 22580, 36914, 20837, 31354,
                38957, 36264, 21218, 41>>
      [] name = "HoldJudge" -> <<128993, 32, 24314, 35696, 25345, 26377, 25110, 35264,
                26395, 32, 40, 26410, 20986, 29694, 26126, 30906,
                30340, 36914, 20986, 22580, 35338, 34399, 41>>
      [] name = "ShortData" -> <<25976, 25818, 19981, 36275>>
      [] name = "FewValid" -> <<25351, 27161, 35336, 31639, 24460, 25976, 25818, 19981,
                36275>>
      [] name = "Success" -> <<25104, 21151>>
      [] name = "Error" -> <<37679, 35492, 58, 32>>
      [] name = "StrongBuy" -> <<128142, 32, 24375, 21147, 36023, 20837>>
      [] name = "Buy" -> <<128994, 32, 24314, 35696, 36023, 20837>>
      [] name = "Neutral" -> <<128993, 32, 25345, 26377, 47, 35264, 26395>>
      [] name = "Reduce" -> <<128992, 32, 24314, 35696, 28187, 30908>>
      [] name = "StrongSell" -> <<128308, 32, 24375, 21147, 36067, 20986>>
      [] name = "Unknown" -> <<10067, 32, 26410, 30693, 29376, 24907>>
      [] name = "AdviseEnter" -> <<24314, 35696, 36914, 22580>>
      [] name = "AdviseExit" -> <<24314, 35696, 20986, 22580>>
      [] name = "WordBuy" -> <<36023, 20837>>
      [] name = "WordSell" -> <<36067, 20986>>
      [] name = "WordReduce" -> <<28187, 30908>>

\* variant: the regime is looked at before the recovery signal
get_recommendation_regime_first(barometer, recovery) ==
    IF IsSubstring(Text("Rain"), barometer) \/ IsSubstring(Text("Storm"), barometer) THEN Text("Exit")
    ELSE IF recovery = Text("Trigger") THEN Text("Enter")
    ELSE Text("Hold")

\* test_suite.py
get_recommendation(barometer, recovery) ==
    IF recovery = Text("Trigger") THEN Text("Enter")
    ELSE IF IsSubstring(Text("Rain"), barometer) \/ IsSubstring(Text("Storm"), barometer) THEN Text("Exit")
    ELSE Text("Hold")

\* scan_module.py
get_recommendation_verbal(barometer, recovery) ==
    IF recovery = Text("Trigger") THEN Text("Enter")
    ELSE IF IsSubstring(Text("Rain"), barometer) \/ IsSubstring(Text("Storm"), barometer) THEN Text("Exit")
    ELSE Text("Hold")

get_recommendation_score(barometer, recovery) ==
    IF recovery = Text("Trigger") THEN 1
    ELSE IF IsSubstring(Text("Rain"), barometer) \/ IsSubstring(Text("Storm"), barometer) THEN -1
    ELSE 0

\* judge_stock.py
get_recommendation_judge(barometer, recovery) ==
    IF recovery = Text("Trigger") THEN Text("EnterJudge")
    ELSE IF IsSubstring(Text("Rain"), barometer) THEN Text("ExitJudge")
    ELSE Text("HoldJudge")

RecommendCopies == {"scan_module", "test_suite", "judge_stock"}

recommend_copy(copy, barometer, recovery) ==
    CASE copy = "scan_module" ->
            [verbal |-> get_recommendation_verbal(barometer, recovery),
             score |-> get_recommendation_score(barometer, recovery)]
      [] copy = "test_suite" ->
            [verbal |-> get_recommendation(barometer, recovery), score |-> NaN]
      [] copy = "judge_stock" ->
            [verbal |-> get_recommendation_judge(barometer, recovery), score |-> NaN]

BarometerTexts ==
    {Text("Sunny"), Text("CloudyBright"), Text("Overcast"), Text("Rainy"), Text("Typhoon"),
     Text("InsufficientScan"), Text("Insufficient")}
RecoveryTexts == {Text("Trigger"), Text("None"), Text("InsufficientScan"), Text("Insufficient")}

InitRecommend ==
    /\ tool \in RecommendCopies
    /\ fn_row \in [barometer : BarometerTexts, recovery : RecoveryTexts]
    /\ fn_config = ConfSmall
    /\ fn_prev = <<>> /\ fn_ret = "pending" /\ fn_worse = TRUE
    /\ ScanIdle /\ OptIdle
    /\ strategy_type = "conservative" /\ config = fn_config
    /\ frame_rows = {} /\ df = <<>> /\ df_calc = <<>> /\ n = 0
    /\ i = 0 /\ pc = "recommend" /\ row = <<>>
    /\ position = 0 /\ buy_price = 0 /\ buy_date = 0
    /\ trades = 0 /\ win_trades = 0 /\ capital = Double(1)
    /\ trade_list = <<>> /\ daily_returns = <<>> /\ result = <<>> /\ ledger = <<>>
    /\ was = snapshot /\ last_op = "init"

Recommend ==
    /\ pc = "recommend"
    /\ fn_ret' = recommend_copy(tool, fn_row.barometer, fn_row.recovery)
    /\ pc' = "returned"
    /\ UNCHANGED <<call_vars, fn_row, fn_config, fn_prev, fn_worse, job_vars, i, row, position,
                   buy_price, buy_date, trades, win_trades, capital, trade_list, daily_returns,
                   result, ledger, was, last_op>>

NextRecommend == Recommend

SpecRecommend == InitRecommend /\ [][NextRecommend]_vars

\* what the claim states, on the labels
StatedRecommendation ==
    IF fn_row.recovery = Text("Trigger") THEN "ENTER"
    ELSE IF fn_row.barometer \in {Text("Rainy"), Text("Typhoon")} THEN "EXIT"
    ELSE "HOLD"

\* C15: the recommendation of test_suite.get_recommendation and of
\* scan_module.get_recommendation_verbal, and scan_module's score, put the
\* recovery signal first: ENTER (+1) whenever recovery is TRIGGER, whatever
\* the regime; otherwise EXIT (-1) exactly when the regime is RAINY or
\* TYPHOON; otherwise HOLD (0).
C15_RecoveryFirst ==
    (pc = "returned" /\ tool \in {"scan_module", "test_suite"}) =>
        /\ fn_ret.verbal = CASE StatedRecommendation = "ENTER" -> Text("Enter")
                             [] StatedRecommendation = "EXIT" -> Text("Exit")
                             [] StatedRecommendation = "HOLD" -> Text("Hold")
        /\ tool = "scan_module" =>
             fn_ret.score = CASE StatedRecommendation = "ENTER" -> 1
                              [] StatedRecommendation = "EXIT" -> -1
                              [] StatedRecommendation = "HOLD" -> 0

\* ENTER was returned on a TYPHOON regime with a TRIGGER
C15_Witness ==
    /\ pc = "returned" /\ tool = "scan_module"
    /\ fn_row.barometer = Text("Typhoon") /\ fn_row.recovery = Text("Trigger")
    /\ fn_ret.verbal = Text("Enter") /\ fn_ret.score = 1

(***************************************************************************)
(* Batch scan (Auto_scan.py over scan_module.analyze_ticker) and batch     *)
(* backtest (batch_tester.py, which stops at its line 16).                 *)
(*                                                                         *)
(* A ticker is its rank in the sorted scan list.  None is <<>> and a value *)
(* that may be None is <<v>> when it is not.  A dict is the sequence of    *)
(* its items in insertion order.  The futures of Auto_scan complete in any *)
(* order.                                                                  *)
(***************************************************************************)
MaxTickers == 2

None == <<>>

Tickers == 1..MaxTickers

Units(ext) ==
    IF ext THEN {<<t, m>> : t \in Tickers, m \in {"model1", "model2"}}
    ELSE {<<t, "single">> : t \in Tickers}

\* what the fetched data of a ticker lead to
FailureKinds == {"no_data", "too_short", "few_valid", "raises"}
ResultKinds == {"enter", "exit", "hold"}
DataKinds == FailureKinds \cup ResultKinds

\* the statuses of the last row for the kinds that reach the classifiers
statuses_of(kind) ==
    CASE kind = "enter" -> [barometer |-> Text("Sunny"), recovery |-> Text("Trigger")]
      [] kind = "exit" -> [barometer |-> Text("Rainy"), recovery |-> Text("None")]
      [] kind = "hold" -> [barometer |-> Text("Overcast"), recovery |-> Text("None")]

\* scan_module.analyze_ticker: (ticker, result, status); the price and the
\* date of the result are left out
analyze_ticker(ticker, kind) ==
    CASE kind \in {"no_data", "too_short"} -> <<ticker, None, Text("ShortData")>>
      [] kind = "few_valid" -> <<ticker, None, Text("FewValid")>>
      [] kind = "raises" -> <<ticker, None, Text("Error")>>
      [] kind \in ResultKinds ->
            LET st == statuses_of(kind) IN
            <<ticker,
              <<[ticker |-> ticker, barometer |-> st.barometer, recovery |-> st.recovery,
                 recommendation |-> get_recommendation_verbal(st.barometer, st.recovery)]>>,
              Text("Success")>>

\* what is remembered of a unit's analysis: its result kind, or that it failed
outcome_class(kind) == IF kind \in FailureKinds THEN "failed" ELSE kind

dict_has(d, k) == \E j \in 1..Len(d) : d[j].key = k
dict_get(d, k) ==
    IF dict_has(d, k) THEN d[CHOOSE j \in 1..Len(d) : d[j].key = k].value ELSE None
dict_set(d, k, v) ==
    IF dict_has(d, k)
    THEN [j \in 1..Len(d) |-> IF d[j].key = k THEN [key |-> k, value |-> v] ELSE d[j]]
    ELSE Append(d, [key |-> k, value |-> v])

\* Auto_scan.py, the body of `for future in as_completed(futures)`: the
\* dict all_results after the future of unit u returned result_tuple
collect(ar, u, result_tuple, ext) ==
    LET ticker == u[1]
        model_id == u[2]
    IN  IF result_tuple[2] # None
        THEN IF ext
             THEN LET d1 == IF ~dict_has(ar, ticker)
                            THEN dict_set(ar, ticker, <<[model1 |-> None, model2 |-> None]>>)
                            ELSE ar
                      cur == dict_get(d1, ticker)
                  IN  IF cur = None
                      \* None[model_id] = ... raises TypeError; the handler stores None
                      THEN dict_set(d1, ticker, None)
                      ELSE dict_set(d1, ticker, <<[cur[1] EXCEPT ![model_id] = result_tuple[2]]>>)
             ELSE dict_set(ar, ticker, result_tuple[2])
        ELSE dict_set(ar, ticker, None)

\* the assignments `all_results[ticker] = ...` that collect executes
key_assignments(ar, u, result_tuple, ext) ==
    IF result_tuple[2] # None /\ ext
    THEN (IF dict_has(ar, u[1]) THEN 0 ELSE 1)
         + (IF dict_has(ar, u[1]) /\ dict_get(ar, u[1]) = None THEN 1 ELSE 0)
    ELSE 1

\* the result of unit u is held in the dict
stored(ar, u, ext) ==
    /\ dict_get(ar, u[1]) # None
    /\ ext => dict_get(ar, u[1])[1][u[2]] # None

InitScan ==
    /\ tool \in {"Auto_scan", "batch_tester"}
    /\ extend \in (IF tool = "Auto_scan" THEN BOOLEAN ELSE {FALSE})
    /\ held_tickers \in (IF tool = "Auto_scan" THEN {{}, {1}} ELSE {{}})
    /\ futures = Units(extend)
    /\ outcomes = <<>> /\ all_results = <<>> /\ results = <<>> /\ stdout = <<>>
    /\ key_writes = [t \in Tickers |-> 0] /\ clobbered = {} /\ report = <<>>
    /\ OptIdle
    /\ fn_row = <<>> /\ fn_config = ConfSmall /\ fn_prev = <<>> /\ fn_ret = "pending"
    /\ fn_worse = FALSE
    /\ strategy_type = "conservative" /\ config = ConfSmall
    /\ frame_rows = {} /\ df = <<>> /\ df_calc = <<>> /\ n = MaxTickers
    /\ i = 0 /\ pc = "scan" /\ row = <<>>
    /\ position = 0 /\ buy_price = 0 /\ buy_date = 0
    /\ trades = 0 /\ win_trades = 0 /\ capital = Double(1)
    /\ trade_list = <<>> /\ daily_returns = <<>> /\ result = <<>> /\ ledger = <<>>
    /\ was = snapshot /\ last_op = "init"

idle_in_scan ==
    <<tool, strategy_type, config, frame_rows, df, df_calc, n, row, position, buy_price,
      buy_date, trades, win_trades, capital, trade_list, daily_returns, result, ledger, was, last_op,
      fn_vars, opt_vars, hold_vars, extend, held_tickers>>

\* one future completes and the main thread collects it
Collect(u, kind) ==
    /\ tool = "Auto_scan" /\ pc = "scan" /\ u \in futures
    /\ LET result_tuple == analyze_ticker(u[1], kind) IN
        /\ all_results' = collect(all_results, u, result_tuple, extend)
        /\ outcomes' = outcomes @@ (u :> outcome_class(kind))
        /\ key_writes' = [key_writes EXCEPT ![u[1]] =
                            @ + key_assignments(all_results, u, result_tuple, extend)]
    /\ clobbered' = clobbered \cup
            {v \in DOMAIN outcomes :
                stored(all_results, v, extend) /\ ~stored(all_results', v, extend)}
    /\ futures' = futures \ {u}
    /\ i' = i + 1
    /\ UNCHANGED <<idle_in_scan, pc, results, stdout, report>>

\* batch_tester.py, the module body: line 16 calls sys.path.append and the
\* file has no `import sys`, so the interpreter raises NameError before a
\* function is defined; the ticker loop and the summary are never reached
BatchStart ==
    /\ tool = "batch_tester" /\ pc = "scan"
    /\ pc' = "crashed"
    /\ UNCHANGED <<idle_in_scan, i, futures, outcomes, all_results, results, stdout,
                   key_writes, clobbered, report>>

(***************************************************************************)
(* The report of Auto_scan.  A printed line is a record of what it shows:  *)
(* its kind, the ticker and the texts (<<>> where the line has none).      *)
(***************************************************************************)

get_combined_recommendation_score(s1, s2) == s1 + s2

get_final_verbal_score(cs) ==
    CASE cs = 2 -> Text("StrongBuy")
      [] cs = 1 -> Text("Buy")
      [] cs = 0 -> Text("Neutral")
      [] cs = -1 -> Text("Reduce")
      [] cs = -2 -> Text("StrongSell")
      [] OTHER -> Text("Unknown")

\* Python's order on strings: by code point, a proper prefix first
TextLess(a, b) ==
    \E k \in 1..Len(b) :
        /\ k - 1 <= Len(a)
        /\ \A j \in 1..(k - 1) : a[j] = b[j]
        /\ (k = Len(a) + 1 \/ a[k] < b[k])

\* sorted(ops, key=lambda x: x['recommendation'], reverse=reverse): stable
\* in both directions
RECURSIVE sorted_by_recommendation(_, _)
sorted_by_recommendation(ops, reverse) ==
    IF ops = <<>> THEN <<>>
    ELSE LET front == sorted_by_recommendation(SubSeq(ops, 1, Len(ops) - 1), reverse)
             x == ops[Len(ops)]
             after(y) == IF reverse THEN TextLess(y.advice, x.advice)
                         ELSE TextLess(x.advice, y.advice)
             at == IF \E j \in 1..Len(front) : after(front[j])
                   THEN CHOOSE j \in 1..Len(front) :
                            after(front[j]) /\ \A h \in 1..(j - 1) : ~after(front[h])
                   ELSE Len(front) + 1
         IN  SubSeq(front, 1, at - 1) \o <<x>> \o SubSeq(front, at, Len(front))

RECURSIVE SeqOfSet(_)
SeqOfSet(S) ==
    IF S = {} THEN <<>>
    ELSE LET m == CHOOSE x \in S : \A y \in S : x <= y
         IN  <<m>> \o SeqOfSet(S \ {m})

Line(kind, ticker, status, advice, m1, m2) ==
    [kind |-> kind, ticker |-> ticker, status |-> status, advice |-> advice,
     m1 |-> m1, m2 |-> m2]

dual_score(res_data) ==
    get_combined_recommendation_score(
        get_recommendation_score(res_data.model1[1].barometer, res_data.model1[1].recovery),
        get_recommendation_score(res_data.model2[1].barometer, res_data.model2[1].recovery))

\* the line of one held ticker
held_line(ar, ticker, ext) ==
    LET res_data == dict_get(ar, ticker) IN
    IF res_data = None THEN Line("held_no_result", ticker, <<>>, <<>>, <<>>, <<>>)
    ELSE IF ext
    THEN IF res_data[1].model1 # None /\ res_data[1].model2 # None
         THEN Line("held", ticker, <<>>, get_final_verbal_score(dual_score(res_data[1])),
                   res_data[1].model1[1].recommendation,
                   res_data[1].model2[1].recommendation)
         ELSE Line("held_no_dual", ticker, <<>>, <<>>, <<>>, <<>>)
    ELSE IF res_data[1].barometer # Text("Insufficient")
            /\ ~IsSubstring(Text("FewValid"), res_data[1].recommendation)
         THEN Line("held", res_data[1].ticker, res_data[1].barometer,
                   res_data[1].recommendation, <<>>, <<>>)
         ELSE Line("held_invalid", ticker, <<>>, <<>>, <<>>, <<>>)

held_section(ar, held, ext) ==
    IF held = {} THEN <<Line("empty_hold_list", 0, <<>>, <<>>, <<>>, <<>>)>>
    ELSE LET order == SeqOfSet(held)
         IN  [j \in 1..Len(order) |-> held_line(ar, order[j], ext)]

\* the list `opportunities`, in the order of the dict
RECURSIVE opportunities_of(_, _, _)
opportunities_of(ar, held, ext) ==
    IF ar = <<>> THEN <<>>
    ELSE LET item == ar[Len(ar)]
             res == item.value
             front == opportunities_of(SubSeq(ar, 1, Len(ar) - 1), held, ext)
         IN  IF ext
             THEN IF /\ item.key \notin held /\ res # None
                     /\ res[1].model1 # None /\ res[1].model2 # None
                     /\ ~IsSubstring(Text("Insufficient"), res[1].model1[1].barometer)
                     /\ ~IsSubstring(Text("FewValid"), res[1].model1[1].recommendation)
                     /\ dual_score(res[1]) # 0
                  THEN Append(front,
                           Line("opportunity", item.key, <<>>,
                                get_final_verbal_score(dual_score(res[1])),
                                res[1].model1[1].recommendation,
                                res[1].model2[1].recommendation))
                  ELSE front
             ELSE IF /\ res # None /\ res[1].ticker \notin held
                     /\ (\/ IsSubstring(Text("AdviseEnter"), res[1].recommendation)
                         \/ IsSubstring(Text("AdviseExit"), res[1].recommendation))
                     /\ res[1].barometer # Text("Insufficient")
                     /\ ~IsSubstring(Text("FewValid"), res[1].recommendation)
                  THEN Append(front,
                           Line("opportunity", res[1].ticker, res[1].barometer,
                                res[1].recommendation, <<>>, <<>>))
                  ELSE front

is_buy_op(op) == IsSubstring(Text("WordBuy"), op.advice)
is_sell_op(op) ==
    IsSubstring(Text("WordSell"), op.advice) \/ IsSubstring(Text("WordReduce"), op.advice)

\* everything printed after the scan
report_of(ar, held, ext) ==
    LET opportunities == opportunities_of(ar, held, ext)
    IN  [held |-> held_section(ar, held, ext),
         none_found |-> (opportunities = <<>>),
         buy |-> sorted_by_recommendation(SelectSeq(opportunities, is_buy_op), TRUE),
         sell |-> sorted_by_recommendation(SelectSeq(opportunities, is_sell_op), FALSE)]

Report ==
    /\ tool = "Auto_scan" /\ pc = "scan" /\ futures = {}
    /\ report' = report_of(all_results, held_tickers, extend)
    /\ pc' = "reported"
    /\ UNCHANGED <<idle_in_scan, i, futures, outcomes, all_results, results, stdout,
                   key_writes, clobbered>>

NextScan ==
    \/ \E u \in Units(extend), kind \in DataKinds : Collect(u, kind)
    \/ BatchStart
    \/ Report

SpecScan == InitScan /\ [][NextScan]_vars

ScanSane ==
    /\ futures \subseteq Units(extend)
    /\ DOMAIN outcomes = Units(extend) \ futures
    /\ Len(all_results) <= MaxTickers

EntriesOf(t) == {j \in 1..Len(all_results) : all_results[j].key = t}
CollectedOf(t) == {u \in DOMAIN outcomes : u[1] = t}
LinesOf(t) == {j \in 1..Len(stdout) : stdout[j].ticker = t}
RowsOf(t) == {j \in 1..Len(results) : results[j].ticker = t}

\* Auto_scan: every collected ticker has exactly one entry of all_results,
\* None when a unit of it failed and its result otherwise, and the report is
\* only printed once every submitted ticker has been processed
ScanOneOutcomePerTicker ==
    /\ (tool = "Auto_scan" /\ pc \in {"scan", "reported"}) =>
          \A t \in Tickers :
              /\ Cardinality(EntriesOf(t)) = IF CollectedOf(t) = {} THEN 0 ELSE 1
              /\ (\E u \in CollectedOf(t) : outcomes[u] = "failed")
                    => dict_get(all_results, t) = None
              /\ (~extend /\ CollectedOf(t) # {} /\ outcomes[<<t, "single">>] # "failed")
                    => dict_get(all_results, t)
                         = analyze_ticker(t, outcomes[<<t, "single">>])[2]
    /\ pc = "reported" => (futures = {} /\ DOMAIN outcomes = Units(extend))

\* C16: a ticker whose data cannot be fetched or is too short, or whose
\* analysis raises, is recorded as that ticker's failure and the run goes
\* on: after a run of Auto_scan or of batch_tester every submitted ticker
\* has exactly one outcome, a result or a failure marker (in batch_tester a
\* row of results or a printed failure).
C16_OneOutcomePerTicker ==
    /\ ScanOneOutcomePerTicker
    /\ (tool = "batch_tester" /\ pc # "scan") =>
          \A t \in Tickers : Cardinality(RowsOf(t)) + Cardinality(LinesOf(t)) = 1

\* C17: the report of Auto_scan is the one printed when the futures complete
\* in ticker order, whatever order they completed in: its content depends
\* on the outcomes only and its lines are in ticker order.
CanonicalOrder == SeqOfSet(Tickers)
RECURSIVE collected_in_order(_, _)
collected_in_order(k, ext) ==
    IF k = 0 THEN <<>>
    ELSE LET t == CanonicalOrder[k]
             front == collected_in_order(k - 1, ext)
             value(u) == IF outcomes[u] = "failed" THEN <<t, None, Text("Error")>>
                         ELSE analyze_ticker(t, outcomes[u])
         IN  IF ext
             THEN collect(collect(front, <<t, "model1">>, value(<<t, "model1">>), ext),
                          <<t, "model2">>, value(<<t, "model2">>), ext)
             ELSE collect(front, <<t, "single">>, value(<<t, "single">>), ext)
C17_ReportIgnoresCompletionOrder ==
    (tool = "Auto_scan" /\ pc = "reported") =>
        report = report_of(collected_in_order(MaxTickers, extend), held_tickers, extend)

\* C18: every key of all_results is assigned at most once and no unit
\* replaces or removes what another unit stored, in single-model and in
\* dual-model mode.
C18_WriteOnce ==
    (tool = "Auto_scan" /\ pc \in {"scan", "reported"}) =>
        /\ \A t \in Tickers : key_writes[t] <= 1
        /\ clobbered = {}

\* the tickers, not held, whose single-model analysis ended with the outcome
Opportune(kind) ==
    {t \in Tickers \ held_tickers : outcomes[<<t, "single">>] = kind}
PrintedIn(section) == {section[j].ticker : j \in 1..Len(section)}

\* C30: in single-model mode every ticker that is not held and came back
\* with an ENTER recommendation is printed in the potential-entry section,
\* every one with an EXIT recommendation in the potential-exit section, and
\* the no-opportunity message is printed exactly when there is no such
\* ticker.
C30_OpportunitiesPrinted ==
    (tool = "Auto_scan" /\ pc = "reported" /\ ~extend) =>
        /\ Opportune("enter") \subseteq PrintedIn(report.buy)
        /\ Opportune("exit") \subseteq PrintedIn(report.sell)
        /\ report.none_found <=> (Opportune("enter") \cup Opportune("exit") = {})

(***************************************************************************)
(* The trial loop of optimizer.py.  A trial draws every parameter from the *)
(* candidate list of the selected space; here the list of ma_short is cut  *)
(* to its least and greatest candidates and the other lists to their first *)
(* candidate, the least one for ma_long.  In                               *)
(* both spaces every ma_short candidate is below every ma_long candidate.  *)
(* evaluate_config runs over one ticker, whose geometric mean and mean are *)
(* the ticker's own figures.                                               *)
(***************************************************************************)
N_TRIALS == 3

MinusInf == <<-1, 0>>

SELECTED_PARAM_SPACE ==
    IF strategy_type = "conservative"
    THEN [ma_short : {40, 90}, ma_long : {150}, rsi_window : {20},
          rsi_oversold : {30}, rsi_bull_threshold : {50}, rsi_bear_threshold : {40},
          macd_fast : {12}, macd_slow : {26}, macd_signal : {9},
          drawdown_window : {250}, drawdown_no_rain : {<<-1, 10>>},
          adx_period : {14}, adx_threshold : {20}]
    ELSE [ma_short : {20, 60}, ma_long : {80}, rsi_window : {7},
          rsi_oversold : {20}, rsi_bull_threshold : {55}, rsi_bear_threshold : {45},
          macd_fast : {5}, macd_slow : {15}, macd_signal : {5},
          drawdown_window : {100}, drawdown_no_rain : {<<-1, 20>>},
          adx_period : {7}, adx_threshold : {15}]

\* {key: random.choice(values) for key, values in SELECTED_PARAM_SPACE.items()}
TrialConfigs == SELECTED_PARAM_SPACE

\* what the one ticker's data lead to inside evaluate_config: an exception,
\* no data or too few bars, too few rows after dropna, no trade at all, one
\* losing trade (sold at half the buy price), a winning trade of +3 and a
\* losing one of -1/2, one winning trade of +1/2
EvaluationKinds ==
    {"raises", "no_data", "no_result", "no_trades", "loser", "mixed", "winner"}

\* run_single_backtest's figures for the kinds that have a result:
\* strategy_return = capital - 1, win_rate = win_trades / trades, or 0
\* without a trade
backtest_of(kind) ==
    CASE kind = "no_trades" -> <<[strategy_return |-> Zero, win_rate |-> Zero]>>
      [] kind = "loser" -> <<[strategy_return |-> <<-1, 2>>, win_rate |-> Zero]>>
      [] kind = "mixed" -> <<[strategy_return |-> One, win_rate |-> <<1, 2>>]>>
      [] kind = "winner" -> <<[strategy_return |-> <<1, 2>>, win_rate |-> One]>>
      [] OTHER -> None

\* evaluate_config(config, [ticker], strategy_type) when it returns: None, or
\* <<details>>
evaluate_config(kind) ==
    LET found == IF kind = "no_data" THEN <<>> ELSE backtest_of(kind)
    IN  IF found = <<>> THEN None
        ELSE <<[avg_geo_return |-> RSub(RAdd(One, found[1].strategy_return), One),
                avg_win_rate |-> found[1].win_rate]>>

score_of(obj, details) ==
    IF obj = "max_return" THEN details.avg_geo_return
    ELSE RAdd(RMul(details.avg_win_rate, Num(1000)), details.avg_geo_return)

\* `if trial_config['ma_short'] >= trial_config['ma_long']: continue`
rejected(c) == c.ma_short >= c.ma_long

\* variant: a tie replaces the best
improves_or_ties(score, best) == best = MinusInf \/ ~RGt(best, score)

\* `if score > best_score`
improves(score, best) == best = MinusInf \/ RGt(score, best)

InitOptimize ==
    /\ tool = "optimizer"
    /\ objective \in {"max_return", "high_winrate"}
    /\ trial_config = <<>> /\ best_score = MinusInf /\ best_config = None
    /\ best_details = <<>> /\ trial_log = <<>>
    /\ hold_file = [exists |-> FALSE, content |-> <<>>] /\ procs = <<>> /\ hold_log = <<>>
    /\ extend = FALSE /\ held_tickers = {} /\ futures = {} /\ outcomes = <<>>
    /\ all_results = <<>> /\ results = <<>> /\ stdout = <<>>
    /\ key_writes = <<>> /\ clobbered = {} /\ report = <<>>
    /\ fn_row = <<>> /\ fn_config = ConfSmall /\ fn_prev = <<>> /\ fn_ret = "pending"
    /\ fn_worse = FALSE
    /\ strategy_type \in {"conservative", "aggressive"} /\ config = ConfSmall
    /\ frame_rows = {} /\ df = <<>> /\ df_calc = <<>> /\ n = N_TRIALS
    /\ i = 0 /\ pc = "trial" /\ row = <<>>
    /\ position = 0 /\ buy_price = 0 /\ buy_date = 0
    /\ trades = 0 /\ win_trades = 0 /\ capital = Double(1)
    /\ trade_list = <<>> /\ daily_returns = <<>> /\ result = <<>> /\ ledger = <<>>
    /\ was = snapshot /\ last_op = "init"

idle_in_optimize ==
    <<tool, strategy_type, config, frame_rows, df, df_calc, n, row, position, buy_price,
      buy_date, trades, win_trades, capital, trade_list, daily_returns, result, ledger, was, last_op,
      fn_vars, objective, extend, held_tickers, futures, outcomes, all_results, results,
      key_writes, clobbered, hold_vars>>

\* one pass of `for i in range(N_TRIALS)`
Trial(c, kind) ==
    /\ pc = "trial" /\ i < n
    /\ trial_config' = c
    /\ i' = i + 1
    /\ IF rejected(c)
       THEN /\ trial_log' = Append(trial_log,
                    [config |-> c, evaluated |-> FALSE, score |-> None,
                     best_score |-> best_score, best_config |-> best_config,
                     best_details |-> best_details])
            /\ UNCHANGED <<best_score, best_config, best_details, stdout>>
       ELSE LET details == IF kind = "raises" THEN None ELSE evaluate_config(kind)
                score == IF details = None THEN None
                         ELSE <<score_of(objective, details[1])>>
                better == score # None /\ improves(score[1], best_score)
            IN  /\ best_score' = IF better THEN score[1] ELSE best_score
                /\ best_config' = IF better THEN <<c>> ELSE best_config
                /\ best_details' = IF better THEN details ELSE best_details
                /\ stdout' = stdout
                      \o <<[trial |-> i + 1, line |-> "header"]>>
                      \o (IF kind = "raises" THEN <<[trial |-> i + 1, line |-> "error"]>>
                          ELSE <<>>)
                      \o (IF score # None THEN <<[trial |-> i + 1, line |-> "figures"]>>
                          ELSE <<>>)
                      \o (IF better THEN <<[trial |-> i + 1, line |-> "new_best"]>>
                          ELSE <<>>)
                /\ trial_log' = Append(trial_log,
                        [config |-> c, evaluated |-> TRUE, score |-> score,
                         best_score |-> best_score', best_config |-> best_config',
                         best_details |-> best_details'])
    /\ UNCHANGED <<idle_in_optimize, pc, report>>

\* the summary after the loop
Summary ==
    /\ pc = "trial" /\ i = n
    /\ report' = IF best_config # None
                 THEN [found |-> TRUE, best_config |-> best_config,
                       best_details |-> best_details]
                 ELSE [found |-> FALSE, best_config |-> None, best_details |-> <<>>]
    /\ pc' = "optimized"
    /\ UNCHANGED <<idle_in_optimize, i, trial_config, best_score, best_config,
                   best_details, trial_log, stdout>>

NextOptimize ==
    \/ \E c \in TrialConfigs, kind \in EvaluationKinds : Trial(c, kind)
    \/ Summary

SpecOptimize == InitOptimize /\ [][NextOptimize]_vars

Scored == {k \in 1..Len(trial_log) : trial_log[k].score # None}
ScoreOf(k) == trial_log[k].score[1]
BestBefore(k) ==
    IF k = 1 THEN [best_score |-> MinusInf, best_config |-> None, best_details |-> <<>>]
    ELSE [best_score |-> trial_log[k - 1].best_score,
          best_config |-> trial_log[k - 1].best_config,
          best_details |-> trial_log[k - 1].best_details]
BestAfter(k) ==
    [best_score |-> trial_log[k].best_score, best_config |-> trial_log[k].best_config,
     best_details |-> trial_log[k].best_details]

\* every trial so far was passed on to evaluate_config: no sample of the
\* selected space has ma_short >= ma_long, so the `continue` is never taken
EveryTrialEvaluated ==
    (pc \in {"trial", "optimized"}) =>
        /\ \A k \in 1..Len(trial_log) :
              /\ trial_log[k].evaluated
              /\ trial_log[k].config.ma_short < trial_log[k].config.ma_long
        /\ Len(trial_log) = i

\* C20: after any number of trials best_score is the greatest score of the
\* trials that scored, best_config and best_details are those of the first
\* trial that attained it, best_config is None exactly when no trial scored,
\* best_score never decreases from a trial to the next, and a trial that
\* raised or yielded no result left all three unchanged.
C20_BestIsFirstMaximum ==
    (pc \in {"trial", "optimized"}) =>
        /\ best_config = None <=> Scored = {}
        /\ Scored = {} => best_score = MinusInf /\ best_details = <<>>
        /\ Scored # {} =>
              LET first == CHOOSE k \in Scored :
                              /\ \A h \in Scored : ~RGt(ScoreOf(h), ScoreOf(k))
                              /\ \A h \in Scored : h < k => RGt(ScoreOf(k), ScoreOf(h))
              IN  /\ best_score = ScoreOf(first)
                  /\ best_config = <<trial_log[first].config>>
                  /\ best_details # <<>>
                  /\ score_of(objective, best_details[1]) = best_score
        /\ \A k \in 1..Len(trial_log) :
              /\ ~improves(BestBefore(k).best_score, BestAfter(k).best_score)
                    \/ BestBefore(k).best_score = BestAfter(k).best_score
              /\ trial_log[k].score = None => BestAfter(k) = BestBefore(k)
        /\ Len(trial_log) > 0 => BestAfter(Len(trial_log)) =
              [best_score |-> best_score, best_config |-> best_config,
               best_details |-> best_details]

\* a later trial tied the best score with another config and the first was kept
C20_Witness ==
    /\ pc = "optimized"
    /\ Scored # {}
    /\ \E k \in Scored, h \in Scored :
          /\ k < h /\ ScoreOf(k) = ScoreOf(h) /\ ScoreOf(k) = best_score
          /\ trial_log[k].config # trial_log[h].config
          /\ best_config = <<trial_log[k].config>>
    /\ \E k \in 1..Len(trial_log) : trial_log[k].evaluated /\ trial_log[k].score = None

(***************************************************************************)
(* Add_delete_hold.py on a POSIX system.  A command line is sys.argv[1:],  *)
(* each argument a string (a sequence of code points, here below 256).     *)
(* The file is its bytes; it is read and written as UTF-8 text in text     *)
(* mode.  A command run alone is one action; two `add` commands run as     *)
(* concurrent processes take a step for the read of the file, a step for   *)
(* the open that truncates it and a step for the write, which reaches the  *)
(* file when the `with` block closes it.                                   *)
(***************************************************************************)
MaxCommands == 3

\* str.upper() of one code point below 256
upper_of(cp) ==
    IF cp \in 97..122 \/ (cp \in 224..254 /\ cp # 247) THEN <<cp - 32>>
    ELSE IF cp = 181 THEN <<924>>
    ELSE IF cp = 223 THEN <<83, 83>>
    ELSE IF cp = 255 THEN <<376>>
    ELSE <<cp>>

\* str.upper() of a text of such code points and of their upper-case forms
RECURSIVE upper(_)
upper(text) == IF text = <<>> THEN <<>> ELSE upper_of(text[1]) \o upper(Tail(text))

\* str.lower() of a text of code points below 256
lower(text) ==
    [j \in 1..Len(text) |->
        IF text[j] \in 65..90 \/ (text[j] \in 192..222 /\ text[j] # 215) THEN text[j] + 32
        ELSE text[j]]

\* the code points below 2048 that str.isspace() accepts
Whitespace == (9..13) \cup (28..32) \cup {133, 160}

\* str.strip()
RECURSIVE strip(_)
strip(text) ==
    IF text = <<>> THEN text
    ELSE IF text[1] \in Whitespace THEN strip(Tail(text))
    ELSE IF text[Len(text)] \in Whitespace THEN strip(SubSeq(text, 1, Len(text) - 1))
    ELSE text

\* sorted(list(tickers))
RECURSIVE sorted_texts(_)
sorted_texts(S) ==
    IF S = {} THEN <<>>
    ELSE LET m == CHOOSE x \in S : \A y \in S : ~TextLess(y, x)
         IN  <<m>> \o sorted_texts(S \ {m})

\* encoding='utf-8', of code points below 2048
RECURSIVE encode(_)
encode(text) ==
    IF text = <<>> THEN <<>>
    ELSE (IF text[1] < 128 THEN <<text[1]>>
          ELSE <<192 + (text[1] \div 64), 128 + (text[1] % 64)>>) \o encode(Tail(text))

\* the text of well-formed UTF-8 bytes of such code points
RECURSIVE decode(_)
decode(bytes) ==
    IF bytes = <<>> THEN <<>>
    ELSE IF bytes[1] < 128 THEN <<bytes[1]>> \o decode(Tail(bytes))
    ELSE <<(bytes[1] - 192) * 64 + (bytes[2] - 128)>> \o decode(Tail(Tail(bytes)))

\* reading in text mode: "\r\n" and "\r" become "\n"
RECURSIVE universal_newlines(_)
universal_newlines(text) ==
    IF text = <<>> THEN <<>>
    ELSE IF text[1] = 13
    THEN <<10>> \o universal_newlines(IF Len(text) >= 2 /\ text[2] = 10 THEN Tail(Tail(text))
                                      ELSE Tail(text))
    ELSE <<text[1]>> \o universal_newlines(Tail(text))

\* `for line in f`: the lines of a text, split after each "\n" (the newline
\* left out: strip removes it)
RECURSIVE lines_of(_)
lines_of(text) ==
    IF text = <<>> THEN <<>>
    ELSE IF \E j \in 1..Len(text) : text[j] = 10
    THEN LET j == CHOOSE h \in 1..Len(text) : text[h] = 10 /\ \A g \in 1..(h - 1) : text[g] # 10
         IN  <<SubSeq(text, 1, j - 1)>> \o lines_of(SubSeq(text, j + 1, Len(text)))
    ELSE <<text>>

read_hold_list(file) ==
    IF ~file.exists THEN {}
    ELSE LET lines == lines_of(universal_newlines(decode(file.content)))
         IN  {upper(strip(lines[j])) : j \in {h \in 1..Len(lines) : strip(lines[h]) # <<>>}}

\* what the loop of write_hold_list hands to f.write, encoded
RECURSIVE written(_)
written(tickers) ==
    IF tickers = <<>> THEN <<>>
    ELSE encode(tickers[1] \o <<10>>) \o written(Tail(tickers))

\* open(HOLD_LIST_FILE, 'w'): the file exists and is empty
open_w(file) == [exists |-> TRUE, content |-> <<>>]

\* the buffered text reaches the file when it is closed, from offset 0 on,
\* over whatever the file holds by then
close_w(file, tickers) ==
    LET data == written(sorted_texts(tickers))
    IN  [exists |-> TRUE,
         content |-> data \o SubSeq(file.content, Len(data) + 1, Len(file.content))]

write_hold_list(file, tickers) == close_w(open_w(file), tickers)

CmdAdd == <<97, 100, 100>>
CmdDel == <<100, 101, 108>>
CmdDelete == <<100, 101, 108, 101, 116, 101>>
CmdList == <<108, 105, 115, 116>>

\* main after `current_tickers = read_hold_list()`: None when it writes
\* nothing, else <<the set it hands to write_hold_list>>
main_after_read(argv, current_tickers) ==
    LET command == lower(argv[1])
        ticker_to_modify == upper(argv[2])
    IN  IF command = CmdList THEN None
        ELSE IF Len(argv) # 2 THEN None
        ELSE IF command = CmdAdd
        THEN IF ticker_to_modify \in current_tickers THEN None
             ELSE <<current_tickers \cup {ticker_to_modify}>>
        ELSE IF command = CmdDel \/ command = CmdDelete
        THEN IF ticker_to_modify \in current_tickers
             THEN <<current_tickers \ {ticker_to_modify}>>
             ELSE None
        ELSE None

\* main: the file after the command
main(argv, file) ==
    IF Len(argv) < 1 THEN file
    ELSE LET to_write == main_after_read(argv, read_hold_list(file))
         IN  IF to_write = None THEN file ELSE write_hold_list(file, to_write[1])

\* "A", "a", "B", " A", the empty string, "\tA", "A\nC", "A\rC" and the
\* sharp s
TickerArguments ==
    {<<65>>, <<97>>, <<66>>, <<32, 65>>, <<>>, <<9, 65>>, <<65, 10, 67>>, <<65, 13, 67>>,
     <<223>>}

CommandLines ==
    {<<>>, <<CmdList>>, <<CmdAdd>>, <<<<102, 111, 111>>, <<65>>>>}
    \cup {<<c, x>> : c \in {CmdAdd, upper(CmdAdd), CmdDel, CmdDelete}, x \in TickerArguments}

InitHold ==
    /\ tool \in {"hold_sequential", "hold_concurrent"}
    /\ hold_file \in {[exists |-> FALSE, content |-> <<>>],
                      [exists |-> TRUE, content |-> <<>>],
                      [exists |-> TRUE, content |-> <<66, 10>>]}
    /\ procs \in (IF tool = "hold_sequential" THEN {<<>>}
                  ELSE {<<[argv |-> <<CmdAdd, x>>, pc |-> "start", current_tickers |-> {}],
                          [argv |-> <<CmdAdd, y>>, pc |-> "start", current_tickers |-> {}]>> :
                            x \in {<<65>>, <<97>>}, y \in {<<66>>, <<67>>}})
    /\ hold_log = <<[argv |-> <<>>, file |-> hold_file]>>
    /\ ScanIdle
    /\ objective = "max_return" /\ trial_config = <<>> /\ best_score = <<>>
    /\ best_config = <<>> /\ best_details = <<>> /\ trial_log = <<>>
    /\ fn_row = <<>> /\ fn_config = ConfSmall /\ fn_prev = <<>> /\ fn_ret = "pending"
    /\ fn_worse = FALSE
    /\ strategy_type = "conservative" /\ config = ConfSmall
    /\ frame_rows = {} /\ df = <<>> /\ df_calc = <<>> /\ n = MaxCommands
    /\ i = 0 /\ pc = "hold" /\ row = <<>>
    /\ position = 0 /\ buy_price = 0 /\ buy_date = 0
    /\ trades = 0 /\ win_trades = 0 /\ capital = Double(1)
    /\ trade_list = <<>> /\ daily_returns = <<>> /\ result = <<>> /\ ledger = <<>>
    /\ was = snapshot /\ last_op = "init"

idle_in_hold == <<call_vars, fn_vars, scan_vars, opt_vars, pc, row, position, buy_price,
                  buy_date, trades, win_trades, capital, trade_list, daily_returns, result, ledger, was,
                  last_op>>

\* one run of the tool, alone
Command(argv) ==
    /\ tool = "hold_sequential" /\ pc = "hold" /\ i < n
    /\ hold_file' = main(argv, hold_file)
    /\ hold_log' = Append(hold_log, [argv |-> argv, file |-> hold_file'])
    /\ i' = i + 1
    /\ UNCHANGED <<idle_in_hold, procs>>

\* process p executes `current_tickers = read_hold_list()`
ReadList(p) ==
    /\ tool = "hold_concurrent" /\ pc = "hold" /\ procs[p].pc = "start"
    /\ procs' = [procs EXCEPT ![p].pc = "read",
                              ![p].current_tickers = read_hold_list(hold_file)]
    /\ UNCHANGED <<idle_in_hold, i, hold_file, hold_log>>

\* process p executes main up to the `open(HOLD_LIST_FILE, 'w')` of
\* write_hold_list, or to its end when it has nothing to write
OpenList(p) ==
    /\ tool = "hold_concurrent" /\ pc = "hold" /\ procs[p].pc = "read"
    /\ LET to_write == main_after_read(procs[p].argv, procs[p].current_tickers)
       IN  IF to_write = None
           THEN /\ procs' = [procs EXCEPT ![p].pc = "done"]
                /\ hold_log' = Append(hold_log, [argv |-> procs[p].argv, file |-> hold_file])
                /\ i' = i + 1
                /\ UNCHANGED hold_file
           ELSE /\ procs' = [procs EXCEPT ![p].pc = "opened",
                                          ![p].current_tickers = to_write[1]]
                /\ hold_file' = open_w(hold_file)
                /\ UNCHANGED <<hold_log, i>>
    /\ UNCHANGED idle_in_hold

\* process p leaves the `with` block of write_hold_list and the rest of main
WriteList(p) ==
    /\ tool = "hold_concurrent" /\ pc = "hold" /\ procs[p].pc = "opened"
    /\ hold_file' = close_w(hold_file, procs[p].current_tickers)
    /\ procs' = [procs EXCEPT ![p].pc = "done"]
    /\ hold_log' = Append(hold_log, [argv |-> procs[p].argv, file |-> hold_file'])
    /\ i' = i + 1
    /\ UNCHANGED idle_in_hold

NextHold ==
    \/ \E argv \in CommandLines : Command(argv)
    \/ \E p \in 1..2 : ReadList(p)
    \/ \E p \in 1..2 : OpenList(p)
    \/ \E p \in 1..2 : WriteList(p)

SpecHold == InitHold /\ [][NextHold]_vars

\* the set the commands so far stand for: set-insert and set-remove of the
\* upper-cased tickers, in order
RECURSIVE ExpectedSet(_)
ExpectedSet(k) ==
    IF k = 1 THEN read_hold_list(hold_log[1].file)
    ELSE LET argv == hold_log[k].argv
             before == ExpectedSet(k - 1)
         IN  IF Len(argv) = 2 /\ lower(argv[1]) = CmdAdd THEN before \cup {upper(argv[2])}
             ELSE IF Len(argv) = 2 /\ lower(argv[1]) \in {CmdDel, CmdDelete}
             THEN before \ {upper(argv[2])}
             ELSE before

\* the file that holds a set: one ticker per line, each once, sorted
FileOf(S) == written(sorted_texts(S))

\* C21: after any sequence of commands run one after the other the file
\* holds exactly the set obtained by set-insert / set-remove of the
\* upper-cased tickers in order, one ticker per line, each once, sorted; and
\* a command that does not change that set leaves the file as it was.
C21_FileIsTheSet ==
    (tool = "hold_sequential" /\ pc = "hold") =>
        \A k \in 2..Len(hold_log) :
            /\ hold_log[k].file.content = FileOf(ExpectedSet(k))
            /\ ExpectedSet(k) = ExpectedSet(k - 1) => hold_log[k].file = hold_log[k - 1].file

\* C29: when two `add` commands for different tickers have both finished,
\* whatever the interleaving of their reads and writes, the file holds both
\* tickers.
C29_NoLostUpdate ==
    (tool = "hold_concurrent" /\ procs[1].pc = "done" /\ procs[2].pc = "done") =>
        {upper(procs[1].argv[2]), upper(procs[2].argv[2])} \subseteq read_hold_list(hold_file)

(***************************************************************************)
(* calculate_indicators applied to whole frames.  A frame is a sequence of *)
(* at most MaxSeries bars with positive closes and Low <= Close <= High;   *)
(* one behaviour is one call of one copy.                                  *)
(***************************************************************************)
MaxSeries == 3

IndicatorCopies == {"scan_module", "judge_stock", "optimizer"}
AdxCopies == {"scan_module", "optimizer"}
IndicatorConfigs ==
    {[ConfSmall EXCEPT !.rsi_window = 2, !.macd_signal = s, !.adx_period = 2] : s \in {1, 3}}
IndicatorBars ==
    {[Close |-> cl, High |-> cl + up, Low |-> cl] : cl \in 1..3, up \in 0..1}
IndicatorFrames == UNION {[1..len -> IndicatorBars] : len \in 1..MaxSeries}

InitIndicators ==
    /\ tool \in IndicatorCopies
    /\ config \in IndicatorConfigs
    /\ df \in IndicatorFrames
    /\ df_calc = <<>>
    /\ pc = "frame"
    /\ strategy_type = "conservative" /\ frame_rows = {} /\ n = Len(df)
    /\ i = 0 /\ row = <<>>
    /\ position = 0 /\ buy_price = 0 /\ buy_date = 0
    /\ trades = 0 /\ win_trades = 0 /\ capital = Double(1)
    /\ trade_list = <<>> /\ daily_returns = <<>> /\ result = <<>> /\ ledger = <<>>
    /\ was = snapshot /\ last_op = "init"
    /\ fn_row = <<>> /\ fn_config = <<>> /\ fn_prev = <<>> /\ fn_ret = "pending"
    /\ fn_worse = FALSE
    /\ ScanIdle /\ OptIdle

\* df = calculate_indicators(df, config)
Calculate ==
    /\ pc = "frame"
    /\ df_calc' = indicators(tool, df, config)
    /\ pc' = "calculated"
    /\ UNCHANGED <<tool, strategy_type, config, frame_rows, df, n, i, row, position,
                   buy_price, buy_date, trades, win_trades, capital, trade_list, daily_returns, result,
                   ledger, was, last_op, fn_vars, job_vars>>

SpecIndicators == InitIndicators /\ [][Calculate]_vars

\* the first bar of the trailing window of `window` bars that ends at bar k
window_start(k, window) == IF k - window + 1 < 1 THEN 1 ELSE k - window + 1

\* C22: on every bar the drawdown is defined, is at most 0, and is 0 exactly
\* when the close is the greatest close of the trailing drawdown_window bars.
C22_DrawdownSign ==
    pc = "calculated" =>
        \A k \in 1..Len(df_calc) :
            /\ ~isna(df_calc[k].Drawdown)
            /\ Le(df_calc[k].Drawdown, Zero)
            /\ IsZero(df_calc[k].Drawdown) <=>
                   \A j \in window_start(k, config.drawdown_window)..k :
                       df[j].Close <= df[k].Close

\* a bar below the peak of its window, and a bar that is the peak of its
\* window without being the highest close so far
C22_Witness ==
    /\ pc = "calculated"
    /\ \E k \in 1..Len(df_calc) : Lt(df_calc[k].Drawdown, Zero)
    /\ \E k \in 1..Len(df_calc) :
           /\ IsZero(df_calc[k].Drawdown)
           /\ \E j \in 1..k : df[j].Close > df[k].Close

\* the close-to-close changes inside the RSI window that ends at bar k (the
\* first bar of the frame has none)
WindowDeltas(k) ==
    {df[j].Close - df[j - 1].Close :
        j \in {h \in (k - config.rsi_window + 1)..k : h > 1}}

\* C23: a defined RSI lies in [0, 100]; on a bar whose full RSI window has
\* no falling close and at least one rising close the RSI is exactly 100.
C23_RsiRange ==
    pc = "calculated" =>
        \A k \in 1..Len(df_calc) :
            /\ ~isna(df_calc[k].RSI) =>
                   Le(Zero, df_calc[k].RSI) /\ Le(df_calc[k].RSI, Num(100))
            /\ (/\ k >= config.rsi_window
                /\ \A d \in WindowDeltas(k) : d >= 0
                /\ \E d \in WindowDeltas(k) : d > 0) =>
                   ~isna(df_calc[k].RSI) /\ Cmp(df_calc[k].RSI, Num(100)) = 0

\* one bar with only gains in its window, one with gains and losses
C23_Witness ==
    /\ pc = "calculated"
    /\ \E k \in 1..Len(df_calc) :
           /\ k >= config.rsi_window
           /\ \A d \in WindowDeltas(k) : d >= 0
           /\ \E d \in WindowDeltas(k) : d > 0
           /\ Cmp(df_calc[k].RSI, Num(100)) = 0
    /\ \E k \in 1..Len(df_calc) :
           Lt(Zero, df_calc[k].RSI) /\ Lt(df_calc[k].RSI, Num(100))

\* a value that is defined, finite and 0
IsNought(x) == ~isna(x) /\ x # Inf /\ IsZero(x)

\* C24: in every copy that computes ADX, DI+ and DI- are 0 where the
\* smoothed true range is 0 or undefined, and DX is 0 where DI+ + DI- is 0.
C24_ZeroDenominator ==
    (pc = "calculated" /\ tool \in AdxCopies) =>
        \A k \in 1..Len(df_calc) :
            /\ (isna(df_calc[k].TR_exp) \/ IsNought(df_calc[k].TR_exp)) =>
                   IsNought(df_calc[k].DIplus) /\ IsNought(df_calc[k].DIminus)
            /\ (IsNought(df_calc[k].DIplus) /\ IsNought(df_calc[k].DIminus)) =>
                   IsNought(df_calc[k].DX)

\* the MACD column of the frame
MacdColumn == [k \in 1..Len(df_calc) |-> df_calc[k].MACD]

\* C25: in every copy MACD_signal is the recursive average, seeded at the
\* first value, of the MACD column with span macd_signal.
C25_SignalSpan ==
    pc = "calculated" =>
        \A k \in 1..Len(df_calc) :
            df_calc[k].MACD_signal = ewm_mean(MacdColumn, config.macd_signal)[k]

(***************************************************************************)
(* The RSI thresholds of the shipped configs and of the optimizer's two    *)
(* parameter spaces (a trial draws every parameter independently), and the *)
(* regime classifier called under each of them.                            *)
(***************************************************************************)
\* config/Model_conf.py, Model_conf_aggressive.py, config/Model_conf_alt.py,
\* config/Model_conf_finetuned.py
PresetConfigs ==
    {[rsi_oversold |-> 35, rsi_bull_threshold |-> 55, rsi_bear_threshold |-> 40],
     [rsi_oversold |-> 30, rsi_bull_threshold |-> 60, rsi_bear_threshold |-> 45],
     [rsi_oversold |-> 40, rsi_bull_threshold |-> 60, rsi_bear_threshold |-> 40],
     [rsi_oversold |-> 35, rsi_bull_threshold |-> 55, rsi_bear_threshold |-> 45]}

\* variant: the conservative space reaches an oversold level of 45
PARAM_SPACE_CONSERVATIVE_wide ==
    [rsi_oversold : {30, 35, 45}, rsi_bull_threshold : {50, 55, 60},
     rsi_bear_threshold : {40, 45, 50}]

PARAM_SPACE_CONSERVATIVE ==
    [rsi_oversold : {30, 35, 40}, rsi_bull_threshold : {50, 55, 60},
     rsi_bear_threshold : {40, 45, 50}]

PARAM_SPACE_AGGRESSIVE ==
    [rsi_oversold : {20, 25, 30}, rsi_bull_threshold : {55, 60, 65},
     rsi_bear_threshold : {45, 50, 55}]

ThresholdConfigs ==
    {[ConfSmall EXCEPT !.rsi_oversold = t.rsi_oversold,
                       !.rsi_bull_threshold = t.rsi_bull_threshold,
                       !.rsi_bear_threshold = t.rsi_bear_threshold] :
        t \in PresetConfigs \cup PARAM_SPACE_CONSERVATIVE \cup PARAM_SPACE_AGGRESSIVE}

ThresholdRows ==
    price_rows({NaN} \cup {Num(v) : v \in {19, 20, 29, 30, 34, 35, 39, 40, 44, 45, 49, 50, 54,
                                           55, 56, 66}})

InitThresholds ==
    /\ tool \in {"scan_module", "optimizer"}
    /\ fn_row \in ThresholdRows
    /\ fn_config \in ThresholdConfigs
    /\ fn_ret = "pending"
    /\ fn_prev = <<>> /\ fn_worse = TRUE
    /\ ScanIdle /\ OptIdle
    /\ strategy_type = "conservative" /\ config = fn_config
    /\ frame_rows = {} /\ df = <<>> /\ df_calc = <<>> /\ n = 0
    /\ i = 0 /\ pc = "call" /\ row = <<>>
    /\ position = 0 /\ buy_price = 0 /\ buy_date = 0
    /\ trades = 0 /\ win_trades = 0 /\ capital = Double(1)
    /\ trade_list = <<>> /\ daily_returns = <<>> /\ result = <<>> /\ ledger = <<>>
    /\ was = snapshot /\ last_op = "init"

SpecThresholds == InitThresholds /\ [][ClassifyCopy]_vars

\* the close is below both moving averages
BelowBoth(r) == Gt(r.ma_short, Num(r.Close)) /\ Gt(r.ma_long, Num(r.Close))

\* C27: every shipped and every sampleable config has rsi_oversold <=
\* rsi_bear_threshold, and under it the classifier never returns TYPHOON: a
\* row below both averages is RAINY when its RSI is below
\* rsi_bear_threshold and OVERCAST otherwise.
C27_NoTyphoon ==
    /\ fn_config.rsi_oversold <= fn_config.rsi_bear_threshold
    /\ pc = "returned" =>
           /\ fn_ret # "TYPHOON"
           /\ BelowBoth(fn_row) =>
                  fn_ret = IF Lt(fn_row.RSI, Num(fn_config.rsi_bear_threshold))
                           THEN "RAINY" ELSE "OVERCAST"

\* a row that meets the TYPHOON rule (below both averages, RSI below
\* rsi_oversold) under a config whose two thresholds are equal
C27_Witness ==
    /\ pc = "returned"
    /\ fn_config.rsi_oversold = fn_config.rsi_bear_threshold
    /\ BelowBoth(fn_row)
    /\ Lt(fn_row.RSI, Num(fn_config.rsi_oversold))
    /\ fn_ret = "RAINY"

(***************************************************************************)
(* run_long_term_backtest: the equity marked to market bar by bar against  *)
(* the capital marked trade by trade.                                      *)
(***************************************************************************)
\* (1 + daily_returns_series).cumprod(), its last value: the running product,
\* one float64 multiplication per bar after the first
RECURSIVE cumulative_returns(_)
cumulative_returns(returns) ==
    IF Len(returns) = 1 THEN Add(Double(1), returns[1])
    ELSE Mul(cumulative_returns(SubSeq(returns, 1, Len(returns) - 1)),
             Add(Double(1), returns[Len(returns)]))

\* 2^-49, and |a - b| <= bars * MaxPrice * 2^-49 * |b|: a and b differ by
\* rounding only.  A bar of a trade multiplies the equity by
\* fl(1 + fl(fl(close / previous close) - 1)) and its exit the capital by
\* fl(1 + fl(fl(close - entry) / entry)); with closes whose ratio is at most
\* r each rounding moves the result by at most r * 2^-53 of its value.
Rounding == <<0, -101, Double(1)[3]>>
WithinRounding(a, b, bars) ==
    FCmp(NAbs(FSub(a, b)), FMul(FMul(Double(bars * MaxPrice), Rounding), NAbs(b))) <= 0

\* C28, as stated: when run_long_term_backtest returns, the cumulative product
\* of 1 + daily_return over the simulated bars equals the capital multiplier.
C28_AsStated ==
    (tool = "long_term" /\ pc = "done") => cumulative_returns(daily_returns) = capital

\* C28, amended: one daily return is recorded per pass of the loop, 0 on a
\* bar that starts FLAT and close / previous close - 1 on a bar that starts
\* LONG; while the loop runs the equity is, up to float64 rounding, the
\* capital times the open trade's close / buy_price, and when the call
\* returns it is the capital multiplier up to float64 rounding: their relative
\* difference is at most bars * r * 2^-49, r a bound of the ratio of two closes.
C28_EquityIsCapital ==
    (tool = "long_term" /\ pc \in {"loop", "done"} /\ i >= 1) =>
        /\ Len(daily_returns) = i - 1
        /\ (last_op = "step" /\ was.position = 0) => daily_returns[i - 1] = Double(0)
        /\ (pc = "loop" /\ i >= 2) =>
               WithinRounding(cumulative_returns(daily_returns),
                              IF position = 1
                              THEN FMul(capital, FDiv(Double(row.Close), Double(buy_price)))
                              ELSE capital,
                              i - 1)
        /\ pc = "done" =>
               WithinRounding(cumulative_returns(daily_returns), capital, i - 1)

\* a call that returned after a losing trade held over two bars, its equity
\* not the capital bit for bit
C28_Witness ==
    /\ tool = "long_term" /\ pc = "done"
    /\ \E k \in 1..Len(ledger) : FCmp(ledger[k].profit, Double(0)) < 0
    /\ \E k \in 1..Len(daily_returns) : daily_returns[k] = Double(0)
    /\ Cardinality({k \in 1..Len(daily_returns) : daily_returns[k] # Double(0)}) >= 2
    /\ cumulative_returns(daily_returns) # capital
    /\ WithinRounding(cumulative_returns(daily_returns), capital, i - 1)
====
